---- MODULE Spec2Model ----
(***************************************************************************)
(* History rewrite engine of git-rewrite: edit_commit_message and          *)
(* squash_commits over a content-addressed commit store, wrapped in the    *)
(* auto-stash guard, as described by LIFECYCLE.md and invoked from         *)
(* routes/+page.svelte, and the page itself: its dialogs, its selection    *)
(* and the invocations it has in flight.                                   *)
(*                                                                         *)
(* A commit is the record of its fields; its hash is a function of exactly *)
(* those fields (LIFECYCLE.md "Principe fondamental"), so two commits with *)
(* the same tree, message, author, date and parents are the same object.   *)
(***************************************************************************)
EXTENDS Integers, Sequences, FiniteSets, TLC

VARIABLES store, branches, worktree, stash, pc, op, pre, opsLeft, extLeft,
          repoPath, repoInfo, loading, error, editModal, squashModal,
          selectedCommits, invokes,
          diffModal, diffRequests, lastViewed,
          commits, listLoading, hasMore, listError, searchQuery,
          searchTimeout, currentRepoPath, fetches, due,
          graphCommits, graphPos, optimized, original

\* the repository and the operation the engine is running
engineVars ==
  <<store, branches, worktree, stash, pc, op, pre, opsLeft, extLeft>>

\* the $state of routes/+page.svelte and the invocations awaiting their reply
pageVars ==
  <<repoPath, repoInfo, loading, error, editModal, squashModal,
    selectedCommits, invokes>>

\* the diff dialog of the page, the get_commit_diff invocations awaiting
\* their reply, and the commit last passed to openDiffModal
diffVars == <<diffModal, diffRequests, lastViewed>>

\* the $state of CommitList, its fetches awaiting their reply, and whether
\* a reload it was asked for is still to be served
listVars ==
  <<commits, listLoading, hasMore, listError, searchQuery, searchTimeout,
    currentRepoPath, fetches, due>>

\* one run of calculateGraphLayout(commits): its argument, the number of
\* commits the loop has processed, and the state of the optimized and of
\* the original function
graphVars == <<graphCommits, graphPos, optimized, original>>

viewVars == <<diffVars, listVars, graphVars>>

vars == <<store, branches, worktree, stash, pc, op, pre, opsLeft, extLeft,
          repoPath, repoInfo, loading, error, editModal, squashModal,
          selectedCommits, invokes,
          diffModal, diffRequests, lastViewed,
          commits, listLoading, hasMore, listError, searchQuery,
          searchTimeout, currentRepoPath, fetches, due,
          graphCommits, graphPos, optimized, original>>

(* ------------------------------ bounds --------------------------------- *)

\* longest initial history of the general specification
MaxChain == 4
\* number of engine operations in one run
MaxOps == 1
\* number of times another actor moves the branch during one run
MaxExternal == 2
\* number of distinct commit messages
MaxMsg == 2
\* number of invocations the page has awaiting their reply at one time
MaxInflight == 2

\* longest list of commits given to calculateGraphLayout
MaxGraphCommits == 4
\* number of commits in one page of the commit list (PAGE_SIZE, scaled down
\* to the histories listed here)
PageSize == 2

Messages == 1..MaxMsg

(* ---------------------------- commit objects --------------------------- *)

\* git2 commit creation: the object written for the given fields
NewCommit(tree, message, author, date, parents) ==
  [tree |-> tree, message |-> message, author |-> author, date |-> date,
   parent_ids |-> parents]

\* "no commit" (an absent Option)
NoCommit == NewCommit(0, 0, 0, 0, <<>>)

IsRoot(c) == Len(c.parent_ids) = 0
IsMerge(c) == Len(c.parent_ids) > 1
FirstParent(c) == c.parent_ids[1]

RECURSIVE Reachable(_)
\* every commit the commit list shows for a tip: the tip and all its ancestors
Reachable(c) ==
  {c} \cup UNION {Reachable(c.parent_ids[i]) : i \in 1..Len(c.parent_ids)}

RECURSIVE FirstParentPath(_)
\* the first-parent line of history, newest first, down to the root
FirstParentPath(c) ==
  IF IsRoot(c) THEN <<c>> ELSE <<c>> \o FirstParentPath(FirstParent(c))

Range(s) == {s[i] : i \in 1..Len(s)}

Reverse(s) == [i \in 1..Len(s) |-> s[Len(s) + 1 - i]]

\* position of commit c in sequence s, 0 when absent
IndexOf(s, c) == IF c \in Range(s) THEN CHOOSE i \in 1..Len(s) : s[i] = c ELSE 0

(* --------------------------- initial histories ------------------------- *)

\* a commit on a side line, child of the root, that a merge brings in
SideCommit(root) == NewCommit(9, 1, 1, 1, <<root>>)

RECURSIVE InitCommit(_, _)
\* the i-th commit of the initial history (1 = root); position mergeAt, when
\* not 0, is a merge of the line with the side commit
InitCommit(i, mergeAt) ==
  IF i = 1 THEN NewCommit(1, 1, 1, 1, <<>>)
  ELSE LET p == InitCommit(i - 1, mergeAt)
       IN NewCommit(i, 1 + (i % 2), 1 + (i % 2), i,
                    IF i = mergeAt THEN <<p, SideCommit(InitCommit(1, 0))>>
                    ELSE <<p>>)

IdleOp ==
  [kind |-> "none", targets |-> {}, new_message |-> 0, auto_stash |-> FALSE,
   did_stash |-> FALSE, start_tip |-> NoCommit, lower_bound |-> NoCommit,
   chain |-> <<>>, steps |-> <<>>, written |-> <<>>,
   current_parent |-> NoCommit, rewrite |-> "pending",
   pop |-> "none", result |-> "pending"]

NoSnapshot ==
  [store |-> {}, branches |-> [b \in {"main", "dev"} |-> NoCommit],
   worktree |-> [base |-> 0, changes |-> 0], stash |-> <<>>,
   extLeft |-> 0]

Snapshot ==
  [store |-> store, branches |-> branches, worktree |-> worktree,
   stash |-> stash, extLeft |-> extLeft]

\* the branch the working tree is on
current == "main"

\* repoPath = null: no repository is open in the page
NoPath == "null"

\* repoInfo of the repository at path
RepoInfo(path) == [branch |-> IF path = NoPath THEN "null" ELSE current]

\* error = null
NoError == "null"

\* createModalState: the state before open() and after close()
ModalClosed == [isOpen |-> FALSE, data |-> NoCommit]

\* createModalState: open(value)
ModalOpen(value) == [isOpen |-> TRUE, data |-> value]

\* the page before a repository is opened (path = null) and once loadRepo
\* has loaded the one at path: nothing selected, no dialog open, nothing in
\* flight
PageInit(path) ==
  /\ repoPath = path
  /\ repoInfo = RepoInfo(path)
  /\ loading = FALSE
  /\ error = NoError
  /\ editModal = ModalClosed
  /\ squashModal = ModalClosed
  /\ selectedCommits = <<>>
  /\ invokes = <<>>

\* the CommitDiff that get_commit_diff returns for a commit, and data = null
CommitDiff(commit) == [hash |-> commit]
NoDiff == CommitDiff(NoCommit)

\* createAsyncModalState: the state before open() and after close()
AsyncModalClosed == [isOpen |-> FALSE, data |-> NoDiff, loading |-> FALSE]

\* the diff dialog of the page before it is first opened
DiffInit ==
  /\ diffModal = AsyncModalClosed
  /\ diffRequests = <<>>
  /\ lastViewed = NoCommit

\* searchTimeout = null: no debounce timer is pending
NoTimeout == "null"

\* the $state of CommitList when the component is created
ListInit ==
  /\ commits = <<>>
  /\ listLoading = FALSE
  /\ hasMore = TRUE
  /\ listError = NoError
  /\ searchQuery = ""
  /\ searchTimeout = NoTimeout
  /\ currentRepoPath = ""
  /\ fetches = <<>>
  /\ due = FALSE

\* the hashes of the commits given to calculateGraphLayout, the commit at
\* position i having hash i, and MissingHash for a parent that is not among
\* them
MissingHash == 0
GraphHashes == 0..MaxGraphCommits

\* the optimized calculateGraphLayout before its loop: no rail, no node
OptimizedStart ==
  [activeRails |-> <<>>, hashToRails |-> [h \in GraphHashes |-> <<>>],
   emptyRails |-> <<>>, activeRailCount |-> 0, maxRails |-> 0,
   colorCounter |-> 0, nodes |-> <<>>, threw |-> FALSE]

\* the original calculateGraphLayout before its loop
OriginalStart ==
  [activeRails |-> <<>>, maxRails |-> 0, colorCounter |-> 0, nodes |-> <<>>]

\* calculateGraphLayout entered with the list given
GraphInit(list) ==
  /\ graphCommits = list
  /\ graphPos = 0
  /\ optimized = OptimizedStart
  /\ original = OriginalStart

\* the commit list, the diff dialog and the graph layout at rest
ViewInit == DiffInit /\ ListInit /\ GraphInit(<<>>)

\* the repository before the operation: main on the tip of the history, dev
\* on its commit devAt
InitWith(n, mergeAt, devAt, dirty, ops) ==
  LET tip == InitCommit(n, mergeAt)
  IN /\ store = Reachable(tip)
     /\ branches = [b \in {"main", "dev"} |->
                      IF b = "main" THEN tip ELSE InitCommit(devAt, mergeAt)]
     /\ worktree = [base |-> tip.tree, changes |-> dirty]
     /\ stash = << [base |-> 1, changes |-> 7, message |-> "user"] >>
     /\ pc = "idle"
     /\ op = IdleOp
     /\ pre = NoSnapshot
     /\ opsLeft = ops
     /\ extLeft = MaxExternal

Init ==
  \E n \in 1..MaxChain : \E mergeAt \in {0} \cup 2..n :
  \E devAt \in {1, n} : \E dirty \in 0..1 :
    InitWith(n, mergeAt, devAt, dirty, MaxOps) /\ PageInit(NoPath) /\ ViewInit

\* the history A-B-C-D-E-F of the squash example, and room for the same
\* request to be made again after one that failed
ExampleLen == 6

InitExample ==
  \E dirty \in 0..1 :
    InitWith(ExampleLen, 0, 1, dirty, MaxOps + 1) /\ PageInit(NoPath)
      /\ ViewInit

\* the history A-B-C of the page's session
ListedLen == 3

\* the page with a clean repository of history A-B-C open, and no other
\* caller of the engine
InitPage == InitWith(ListedLen, 0, 1, 0, 0) /\ PageInit("repo") /\ ViewInit

(* --------------------------- working directory ------------------------- *)

\* check_clean: the working tree has no uncommitted change
IsClean(wt) == wt.changes = 0

\* faulty variant: an entry is saved for a tree without changes too
StashSave_AlwaysSaves(wt, st) ==
  [did |-> TRUE,
   worktree |-> [wt EXCEPT !.changes = 0],
   stash |-> << [base |-> wt.base, changes |-> wt.changes,
                 message |-> "git-rewrite-auto-stash"] >> \o st]

\* repo.stash_save("git-rewrite-auto-stash"): with uncommitted changes, a new
\* entry on top of the stash and a clean tree; with none, nothing is saved
StashSave(wt, st) ==
  IF IsClean(wt)
  THEN [did |-> FALSE, worktree |-> wt, stash |-> st]
  ELSE [did |-> TRUE,
        worktree |-> [wt EXCEPT !.changes = 0],
        stash |-> << [base |-> wt.base, changes |-> wt.changes,
                      message |-> "git-rewrite-auto-stash"] >> \o st]

\* faulty variant: the entry is dropped without being applied
StashPop_DropsOnly(wt, st, ok) ==
  IF ok THEN [worktree |-> wt, stash |-> Tail(st)]
  ELSE [worktree |-> wt, stash |-> st]

\* faulty variant: the entry is dropped even when it could not be applied
StashPop_AlwaysDrops(wt, st, ok) ==
  IF ok
  THEN [worktree |-> [wt EXCEPT !.changes = st[1].changes], stash |-> Tail(st)]
  ELSE [worktree |-> wt, stash |-> Tail(st)]

\* repo.stash_pop(0): ok applies the top entry and drops it; a failed pop
\* leaves the stash and the tree as they are
StashPop(wt, st, ok) ==
  IF ok
  THEN [worktree |-> [wt EXCEPT !.changes = st[1].changes], stash |-> Tail(st)]
  ELSE [worktree |-> wt, stash |-> st]

\* repo.reset(commit, Hard): the tree of the commit, no uncommitted change
ResetHard(c) == [base |-> c.tree, changes |-> 0]

(* ------------------------------ linearizer ----------------------------- *)

\* index in path (newest first) of the oldest of the targets found on it
OldestIndex(path, targets) ==
  CHOOSE i \in 1..Len(path) :
    /\ path[i] \in targets
    /\ \A j \in 1..Len(path) : path[j] \in targets => j <= i

\* the commits the walk from the tip visits: down to the oldest target when
\* every target lies on the first-parent line, else down to the root
Walked(path, targets) ==
  IF targets = {} THEN <<>>
  ELSE IF targets \subseteq Range(path)
       THEN SubSeq(path, 1, OldestIndex(path, targets))
       ELSE path

\* faulty variant: a target without parent is not refused
Linearized_NoRootCheck(tip, targets) ==
  LET path == FirstParentPath(tip)
      walked == Walked(path, targets)
      found == targets \cap Range(path)
  IN IF \E i \in 1..Len(walked) : IsMerge(walked[i])
     THEN [error |-> "UnsupportedMergeCommit", chain |-> <<>>,
           lower_bound |-> NoCommit]
     ELSE IF found = {}
     THEN [error |-> "none", chain |-> <<>>, lower_bound |-> NoCommit]
     ELSE LET k == OldestIndex(path, found)
          IN [error |-> "none",
              chain |-> Reverse(SubSeq(path, 1, k)),
              lower_bound |-> IF IsRoot(path[k]) THEN NoCommit
                              ELSE FirstParent(path[k])]

\* faulty variant: a commit with several parents is not refused
Linearized_NoMergeCheck(tip, targets) ==
  LET path == FirstParentPath(tip)
      found == targets \cap Range(path)
  IN IF found = {}
     THEN [error |-> "none", chain |-> <<>>, lower_bound |-> NoCommit]
     ELSE LET k == OldestIndex(path, found)
          IN IF IsRoot(path[k])
             THEN [error |-> "InitialCommitUnmodifiable", chain |-> <<>>,
                   lower_bound |-> NoCommit]
             ELSE [error |-> "none",
                   chain |-> Reverse(SubSeq(path, 1, k)),
                   lower_bound |-> FirstParent(path[k])]

\* linearize(branchTip, targets): the chain oldest first with its lower
\* bound, or the error that ends the walk
Linearized(tip, targets) ==
  LET path == FirstParentPath(tip)
      walked == Walked(path, targets)
      found == targets \cap Range(path)
  IN IF \E i \in 1..Len(walked) : IsMerge(walked[i])
     THEN [error |-> "UnsupportedMergeCommit", chain |-> <<>>,
           lower_bound |-> NoCommit]
     ELSE IF found = {}
     THEN [error |-> "none", chain |-> <<>>, lower_bound |-> NoCommit]
     ELSE LET k == OldestIndex(path, found)
          IN IF IsRoot(path[k])
             THEN [error |-> "InitialCommitUnmodifiable", chain |-> <<>>,
                   lower_bound |-> NoCommit]
             ELSE [error |-> "none",
                   chain |-> Reverse(SubSeq(path, 1, k)),
                   lower_bound |-> FirstParent(path[k])]

(* -------------------------------- planner ------------------------------ *)

\* faulty variant: the tree is built again for the new commit instead of
\* being reused
PlanStep_RecomputedTree(c, message) ==
  [orig |-> c, tree |-> c.tree + 10, message |-> message]

\* faulty variant: the tree of the parent instead of the commit's own
PlanStep_ParentTree(c, message) ==
  [orig |-> c, tree |-> FirstParent(c).tree, message |-> message]

PlanStep(c, message) == [orig |-> c, tree |-> c.tree, message |-> message]

\* faulty variant: no step takes new_message
PlanEdit_KeepsMessages(chain, target, new_message) ==
  [i \in 1..Len(chain) |->
     [orig |-> chain[i], tree |-> chain[i].tree, message |-> chain[i].message]]

\* faulty variant: every step takes new_message
PlanEdit_AllNewMessage(chain, target, new_message) ==
  [i \in 1..Len(chain) |->
     [orig |-> chain[i], tree |-> chain[i].tree, message |-> new_message]]

\* edit: one step per commit of the chain, new_message for the target only
PlanEdit(chain, target, new_message) ==
  [i \in 1..Len(chain) |->
     PlanStep(chain[i],
              IF chain[i] = target THEN new_message ELSE chain[i].message)]

\* the newest of the targets: the one latest in the chain
NewestTarget(chain, targets) ==
  chain[CHOOSE i \in 1..Len(chain) :
          /\ chain[i] \in targets
          /\ \A j \in 1..Len(chain) : chain[j] \in targets => j <= i]

\* faulty variant: the squashed commit is emitted at the oldest target, with
\* the tree of the oldest target
PlanSquash_OldestTree(chain, targets, new_message) ==
  LET oldest == chain[CHOOSE i \in 1..Len(chain) :
                        /\ chain[i] \in targets
                        /\ \A j \in 1..Len(chain) :
                             chain[j] \in targets => i <= j]
      kept == SelectSeq(chain, LAMBDA c : c \notin targets \/ c = oldest)
  IN [i \in 1..Len(kept) |->
        [orig |-> kept[i], tree |-> kept[i].tree,
         message |-> IF kept[i] = oldest THEN new_message
                     ELSE kept[i].message]]

\* faulty variant: everything from the oldest target to the newest is taken
\* into the squashed commit, the commits between two targets included
PlanSquash_WholeRange(chain, targets, new_message) ==
  LET newest == NewestTarget(chain, targets)
      first == CHOOSE i \in 1..Len(chain) :
                 /\ chain[i] \in targets
                 /\ \A j \in 1..Len(chain) : chain[j] \in targets => i <= j
      last == CHOOSE i \in 1..Len(chain) : chain[i] = newest
      kept == SubSeq(chain, 1, first - 1) \o SubSeq(chain, last, Len(chain))
  IN [i \in 1..Len(kept) |->
        [orig |-> kept[i], tree |-> kept[i].tree,
         message |-> IF kept[i] = newest THEN new_message
                     ELSE kept[i].message]]

RECURSIVE PlanSquashFrom(_, _, _, _)
PlanSquashFrom(chain, targets, newest, new_message) ==
  IF chain = <<>> THEN <<>>
  ELSE LET c == Head(chain)
           rest == PlanSquashFrom(Tail(chain), targets, newest, new_message)
       IN IF c \in targets /\ c # newest THEN rest
          ELSE IF c = newest THEN <<PlanStep(c, new_message)>> \o rest
          ELSE <<PlanStep(c, c.message)>> \o rest

\* squash: targets before the newest are skipped, the newest keeps its own
\* tree and takes new_message, the others are re-emitted
PlanSquash(chain, targets, new_message) ==
  PlanSquashFrom(chain, targets, NewestTarget(chain, targets), new_message)

\* faulty variant: a squash of fewer than two targets is planned
Planned_NoSizeCheck(kind, chain, targets, new_message) ==
  IF ~(targets \subseteq Range(chain)) \/ targets = {}
  THEN [error |-> "TargetNotInChain", steps |-> <<>>]
  ELSE IF kind = "edit"
  THEN [error |-> "none",
        steps |-> PlanEdit(chain, CHOOSE t \in targets : TRUE, new_message)]
  ELSE [error |-> "none", steps |-> PlanSquash(chain, targets, new_message)]

\* faulty variant: targets that are not in the chain are ignored
Planned_NoChainCheck(kind, chain, targets, new_message) ==
  LET inChain == targets \cap Range(chain)
  IN IF kind = "squash" /\ Cardinality(targets) < 2
     THEN [error |-> "EmptySquashSet", steps |-> <<>>]
     ELSE IF inChain = {}
     THEN [error |-> "TargetNotInChain", steps |-> <<>>]
     ELSE IF kind = "edit"
     THEN [error |-> "none",
           steps |-> PlanEdit(chain, CHOOSE t \in inChain : TRUE, new_message)]
     ELSE [error |-> "none", steps |-> PlanSquash(chain, inChain, new_message)]

\* plan(chain, operation): the steps, or the error of a malformed request
Planned(kind, chain, targets, new_message) ==
  IF kind = "squash" /\ Cardinality(targets) < 2
  THEN [error |-> "EmptySquashSet", steps |-> <<>>]
  ELSE IF ~(targets \subseteq Range(chain))
  THEN [error |-> "TargetNotInChain", steps |-> <<>>]
  ELSE IF kind = "edit"
  THEN [error |-> "none",
        steps |-> PlanEdit(chain, CHOOSE t \in targets : TRUE, new_message)]
  ELSE [error |-> "none", steps |-> PlanSquash(chain, targets, new_message)]

\* faulty variant: the parents are copied from the original commit
RecreatedCommit_OriginalParents(step, current_parent) ==
  NewCommit(step.tree, step.message, step.orig.author, step.orig.date,
            step.orig.parent_ids)

\* the commit one step writes on top of current_parent
RecreatedCommit(step, current_parent) ==
  NewCommit(step.tree, step.message, step.orig.author, step.orig.date,
            <<current_parent>>)

(* ------------------------------- operations ---------------------------- *)

\* the command of invoke('edit_commit_message', {commitHash, newMessage,
\* autoStash}) starts, for a commit of the list shown for the current branch
EditCommitMessage ==
  /\ pc = "idle"
  /\ opsLeft > 0
  /\ \E target \in Reachable(branches[current]) :
     \E new_message \in Messages : \E auto_stash \in BOOLEAN :
       op' = [IdleOp EXCEPT !.kind = "edit", !.targets = {target},
                            !.new_message = new_message,
                            !.auto_stash = auto_stash]
  /\ pc' = "guard"
  /\ opsLeft' = opsLeft - 1
  /\ UNCHANGED <<store, branches, worktree, stash, pre, extLeft,
                 pageVars, viewVars>>

\* the command of invoke('squash_commits', {commitHashes, newMessage,
\* autoStash}) starts, for a set of commits of the list, of any size
SquashCommits ==
  /\ pc = "idle"
  /\ opsLeft > 0
  /\ \E targets \in SUBSET Reachable(branches[current]) :
     \E new_message \in Messages : \E auto_stash \in BOOLEAN :
       op' = [IdleOp EXCEPT !.kind = "squash", !.targets = targets,
                            !.new_message = new_message,
                            !.auto_stash = auto_stash]
  /\ pc' = "guard"
  /\ opsLeft' = opsLeft - 1
  /\ UNCHANGED <<store, branches, worktree, stash, pre, extLeft,
                 pageVars, viewVars>>

\* faulty variant: without auto_stash the tree is not checked
GuardEntry_NoCheck(wt, st, auto_stash) ==
  IF auto_stash
  THEN [error |-> "none"] @@ StashSave(wt, st)
  ELSE [error |-> "none", did |-> FALSE, worktree |-> wt, stash |-> st]

\* the value of did_stash and the state the guard leaves: the stash is saved
\* with auto_stash, the tree only checked without it
GuardEntry(wt, st, auto_stash) ==
  IF auto_stash
  THEN [error |-> "none"] @@ StashSave(wt, st)
  ELSE IF IsClean(wt)
  THEN [error |-> "none", did |-> FALSE, worktree |-> wt, stash |-> st]
  ELSE [error |-> "DirtyWorkingDirectory", did |-> FALSE, worktree |-> wt,
        stash |-> st]

\* entry of the operation: did_stash = if auto_stash { stash_save } else
\* { check_clean; false }
Guard ==
  /\ pc = "guard"
  /\ pre' = Snapshot
  /\ LET g == GuardEntry(worktree, stash, op.auto_stash)
     IN /\ worktree' = g.worktree
        /\ stash' = g.stash
        /\ IF g.error = "none"
           THEN /\ op' = [op EXCEPT !.did_stash = g.did]
                /\ pc' = "linearize"
           ELSE /\ op' = [op EXCEPT !.rewrite = g.error, !.result = g.error]
                /\ pc' = "done"
  /\ UNCHANGED <<store, branches, opsLeft, extLeft, pageVars, viewVars>>

\* the linearizer reads the branch tip and walks down to the oldest target
Linearize ==
  /\ pc = "linearize"
  /\ LET tip == branches[current]
         l == Linearized(tip, op.targets)
     IN IF l.error = "none"
        THEN /\ op' = [op EXCEPT !.start_tip = tip, !.chain = l.chain,
                                 !.lower_bound = l.lower_bound]
             /\ pc' = "plan"
        ELSE /\ op' = [op EXCEPT !.start_tip = tip, !.rewrite = l.error]
             /\ pc' = "pop"
  /\ UNCHANGED <<store, branches, worktree, stash, pre, opsLeft, extLeft,
                 pageVars, viewVars>>

\* the planner turns the chain into steps; current_parent starts at the
\* lower bound
Plan ==
  /\ pc = "plan"
  /\ LET p == Planned(op.kind, op.chain, op.targets, op.new_message)
     IN IF p.error = "none"
        THEN /\ op' = [op EXCEPT !.steps = p.steps,
                                 !.current_parent = op.lower_bound]
             /\ pc' = "write"
        ELSE /\ op' = [op EXCEPT !.rewrite = p.error]
             /\ pc' = "pop"
  /\ UNCHANGED <<store, branches, worktree, stash, pre, opsLeft, extLeft,
                 pageVars, viewVars>>

\* faulty variant: current_parent is not set to the commit just written
WriteStep_ParentNotAdvanced ==
  /\ pc = "write"
  /\ LET i == Len(op.written) + 1
         new_commit == RecreatedCommit(op.steps[i], op.current_parent)
     IN \E ok \in BOOLEAN :
          IF ok
          THEN /\ store' = store \cup {new_commit}
               /\ op' = [op EXCEPT !.written = Append(@, new_commit)]
               /\ pc' = IF i = Len(op.steps) THEN "advance" ELSE "write"
          ELSE /\ store' = store
               /\ op' = [op EXCEPT !.rewrite = "ObjectWriteFailure"]
               /\ pc' = "pop"
  /\ UNCHANGED <<branches, worktree, stash, pre, opsLeft, extLeft,
                 pageVars, viewVars>>

\* faulty variant: the loop is left for the reference update after the
\* first commit written
WriteStep_LeavesLoopEarly ==
  /\ pc = "write"
  /\ LET i == Len(op.written) + 1
         new_commit == RecreatedCommit(op.steps[i], op.current_parent)
     IN \E ok \in BOOLEAN :
          IF ok
          THEN /\ store' = store \cup {new_commit}
               /\ op' = [op EXCEPT !.written = Append(@, new_commit),
                                   !.current_parent = new_commit]
               /\ pc' = "advance"
          ELSE /\ store' = store
               /\ op' = [op EXCEPT !.rewrite = "ObjectWriteFailure"]
               /\ pc' = "pop"
  /\ UNCHANGED <<branches, worktree, stash, pre, opsLeft, extLeft,
                 pageVars, viewVars>>

\* faulty variant: the branch is moved to every commit as it is written
WriteStep_MovesRefEachStep ==
  /\ pc = "write"
  /\ LET i == Len(op.written) + 1
         new_commit == RecreatedCommit(op.steps[i], op.current_parent)
     IN \E ok \in BOOLEAN :
          IF ok
          THEN /\ store' = store \cup {new_commit}
               /\ branches' = [branches EXCEPT ![current] = new_commit]
               /\ op' = [op EXCEPT !.written = Append(@, new_commit),
                                   !.current_parent = new_commit]
               /\ pc' = IF i = Len(op.steps) THEN "advance" ELSE "write"
          ELSE /\ store' = store
               /\ branches' = branches
               /\ op' = [op EXCEPT !.rewrite = "ObjectWriteFailure"]
               /\ pc' = "pop"
  /\ UNCHANGED <<worktree, stash, pre, opsLeft, extLeft, pageVars, viewVars>>

\* faulty variant: after a failed write the loop goes on with the next step
WriteStep_ContinuesAfterFailure ==
  /\ pc = "write"
  /\ LET i == Len(op.written) + 1
         new_commit == RecreatedCommit(op.steps[i], op.current_parent)
     IN \E ok \in BOOLEAN :
          /\ store' = IF ok THEN store \cup {new_commit} ELSE store
          /\ op' = [op EXCEPT !.written = Append(@, new_commit),
                              !.current_parent = new_commit,
                              !.rewrite = IF ok THEN @
                                          ELSE "ObjectWriteFailure"]
          /\ pc' = IF i = Len(op.steps) THEN "pop" ELSE "write"
  /\ UNCHANGED <<branches, worktree, stash, pre, opsLeft, extLeft,
                 pageVars, viewVars>>

\* one turn of the loop: repo.commit(tree, message, [current_parent]);
\* current_parent = new_commit. The store may reject the write.
WriteStep ==
  /\ pc = "write"
  /\ LET i == Len(op.written) + 1
         new_commit == RecreatedCommit(op.steps[i], op.current_parent)
     IN \E ok \in BOOLEAN :
          IF ok
          THEN /\ store' = store \cup {new_commit}
               /\ op' = [op EXCEPT !.written = Append(@, new_commit),
                                   !.current_parent = new_commit]
               /\ pc' = IF i = Len(op.steps) THEN "advance" ELSE "write"
          ELSE /\ store' = store
               /\ op' = [op EXCEPT !.rewrite = "ObjectWriteFailure"]
               /\ pc' = "pop"
  /\ UNCHANGED <<branches, worktree, stash, pre, opsLeft, extLeft,
                 pageVars, viewVars>>

\* faulty variant: the reference is moved without comparing it with the tip
\* the operation read
Advance_NoCompare ==
  /\ pc = "advance"
  /\ branches' = [branches EXCEPT ![current] = op.current_parent]
  /\ worktree' = ResetHard(op.current_parent)
  /\ op' = [op EXCEPT !.rewrite = "ok"]
  /\ pc' = "pop"
  /\ UNCHANGED <<store, stash, pre, opsLeft, extLeft, pageVars, viewVars>>

\* faulty variant: the commits of the old line are deleted from the store
\* once the reference has moved
Advance_PrunesOldLine ==
  /\ pc = "advance"
  /\ IF branches[current] = op.start_tip
     THEN /\ branches' = [branches EXCEPT ![current] = op.current_parent]
          /\ worktree' = ResetHard(op.current_parent)
          /\ store' = store \ (Range(op.chain) \ Range(op.written))
          /\ op' = [op EXCEPT !.rewrite = "ok"]
     ELSE /\ op' = [op EXCEPT !.rewrite = "RefUpdateFailure"]
          /\ UNCHANGED <<store, branches, worktree>>
  /\ pc' = "pop"
  /\ UNCHANGED <<stash, pre, opsLeft, extLeft, pageVars, viewVars>>

\* faulty variant: every branch that is on the old tip is moved to the new
\* tip
Advance_MovesEveryRef ==
  /\ pc = "advance"
  /\ IF branches[current] = op.start_tip
     THEN /\ branches' = [b \in DOMAIN branches |->
                            IF branches[b] = op.start_tip
                            THEN op.current_parent ELSE branches[b]]
          /\ worktree' = ResetHard(op.current_parent)
          /\ op' = [op EXCEPT !.rewrite = "ok"]
     ELSE /\ op' = [op EXCEPT !.rewrite = "RefUpdateFailure"]
          /\ UNCHANGED <<branches, worktree>>
  /\ pc' = "pop"
  /\ UNCHANGED <<store, stash, pre, opsLeft, extLeft, pageVars, viewVars>>

\* repo.reset(current_parent, Hard), the reference moved only if it still
\* is the tip the operation read
Advance ==
  /\ pc = "advance"
  /\ IF branches[current] = op.start_tip
     THEN /\ branches' = [branches EXCEPT ![current] = op.current_parent]
          /\ worktree' = ResetHard(op.current_parent)
          /\ op' = [op EXCEPT !.rewrite = "ok"]
     ELSE /\ op' = [op EXCEPT !.rewrite = "RefUpdateFailure"]
          /\ UNCHANGED <<branches, worktree>>
  /\ pc' = "pop"
  /\ UNCHANGED <<store, stash, pre, opsLeft, extLeft, pageVars, viewVars>>

\* faulty variant: an error of the rewrite is returned before the pop
Pop_OnSuccessOnly ==
  /\ pc = "pop"
  /\ IF op.did_stash /\ op.rewrite = "ok"
     THEN \E ok \in BOOLEAN :
            LET r == StashPop(worktree, stash, ok)
            IN /\ worktree' = r.worktree
               /\ stash' = r.stash
               /\ op' = [op EXCEPT
                           !.pop = IF ok THEN "ok" ELSE "failed",
                           !.result = IF ok THEN op.rewrite
                                      ELSE "StashRestoreConflict"]
     ELSE /\ op' = [op EXCEPT !.result = op.rewrite]
          /\ UNCHANGED <<worktree, stash>>
  /\ pc' = "done"
  /\ UNCHANGED <<store, branches, pre, opsLeft, extLeft, pageVars, viewVars>>

\* if did_stash { repo.stash_pop(0)? }; then the result of the operation
Pop ==
  /\ pc = "pop"
  /\ IF op.did_stash
     THEN \E ok \in BOOLEAN :
            LET r == StashPop(worktree, stash, ok)
            IN /\ worktree' = r.worktree
               /\ stash' = r.stash
               /\ op' = [op EXCEPT
                           !.pop = IF ok THEN "ok" ELSE "failed",
                           !.result = IF ok THEN op.rewrite
                                      ELSE "StashRestoreConflict"]
     ELSE /\ op' = [op EXCEPT !.result = op.rewrite]
          /\ UNCHANGED <<worktree, stash>>
  /\ pc' = "done"
  /\ UNCHANGED <<store, branches, pre, opsLeft, extLeft, pageVars, viewVars>>

\* the command returns its Result to the caller
Return ==
  /\ pc = "done"
  /\ pc' = "idle"
  /\ op' = IdleOp
  /\ pre' = NoSnapshot
  /\ UNCHANGED <<store, branches, worktree, stash, opsLeft, extLeft,
                 pageVars, viewVars>>

\* another actor resets the branch (git reset --hard <hash>) while an
\* operation is under way: before the guard runs, or between the tip read
\* and the reference update; it may reset the branch back to where it was
ExternalReset ==
  /\ pc \in {"guard", "plan", "write", "advance"}
  /\ extLeft > 0
  /\ \E c \in ({branches["dev"], op.start_tip} \cup
               {branches[current].parent_ids[i] :
                  i \in 1..Len(branches[current].parent_ids)}) \cap store :
       /\ c # branches[current]
       /\ branches' = [branches EXCEPT ![current] = c]
       /\ worktree' = ResetHard(c)
  /\ extLeft' = extLeft - 1
  /\ UNCHANGED <<store, stash, pc, op, pre, opsLeft, pageVars, viewVars>>

(* -------------------------------- the page ---------------------------- *)

\* the commands that move the reference or touch the working tree
Operations == {"edit_commit_message", "squash_commits", "switch_branch"}

\* the texts an invoke can be rejected with
Failures == {"DirtyWorkingDirectory", "RefUpdateFailure"}

\* error = 'Select at least 2 commits to squash'
SelectAtLeastTwo == "Select at least 2 commits to squash"

\* one invoke awaiting its reply: the command and the arguments the page
\* took from its state (newMessage and autoStash are passed through to the
\* command and play no part in what the page does next)
Invocation(cmd, commitHashes, branchName) ==
  [cmd |-> cmd, commitHashes |-> commitHashes, branchName |-> branchName]

\* sequence s without its i-th element
Remove(s, i) == SubSeq(s, 1, i - 1) \o SubSeq(s, i + 1, Len(s))

\* Set.add and Set.delete on a Set kept in insertion order
SetAdd(sel, c) == IF c \in Range(sel) THEN sel ELSE Append(sel, c)
SetDelete(sel, c) == SelectSeq(sel, LAMBDA x : x # c)

\* handleSelectionChange(newSelection), with the selections CommitList hands
\* over: handleSelect(hash, selected) and clearSelection (selectAll gives a
\* selection that handleSelect gives too); the list is rendered only with a
\* repository open
handleSelectionChange ==
  /\ repoPath # NoPath
  /\ \E newSelection \in {SetAdd(selectedCommits, c) : c \in store} \cup
                         {SetDelete(selectedCommits, c) : c \in store} \cup
                         {<<>>} :
       selectedCommits' = newSelection
  /\ UNCHANGED <<loading, error, editModal, squashModal, repoInfo, invokes,
                 repoPath, engineVars, viewVars>>

\* openEditModal(commit), from the edit button of a listed commit
openEditModal ==
  /\ repoPath # NoPath
  /\ \E commit \in store : editModal' = ModalOpen(commit)
  /\ UNCHANGED <<loading, error, squashModal, selectedCommits, repoInfo,
                 invokes, repoPath, engineVars, viewVars>>

\* closeEditModal: Cancel, the close button, the backdrop or Escape
closeEditModal ==
  /\ editModal' = ModalClosed
  /\ UNCHANGED <<loading, error, squashModal, selectedCommits, repoInfo,
                 invokes, repoPath, engineVars, viewVars>>

\* saveEditMessage, from the Save button of the edit dialog; the button is
\* not disabled while loading
saveEditMessage ==
  /\ editModal.isOpen
  /\ Len(invokes) < MaxInflight
  /\ IF editModal.data = NoCommit \/ repoPath = NoPath
     THEN UNCHANGED vars
     ELSE /\ loading' = TRUE
          /\ error' = NoError
          /\ invokes' = Append(invokes,
                               Invocation("edit_commit_message",
                                          <<editModal.data>>, repoInfo.branch))
          /\ UNCHANGED <<editModal, squashModal, selectedCommits, repoInfo,
                         repoPath, engineVars, viewVars>>

\* faulty variant: the dialog opens whatever the selection
openSquashModal_NoGuard ==
  /\ squashModal' = ModalOpen(NoCommit)
  /\ UNCHANGED <<loading, error, editModal, selectedCommits, repoInfo,
                 invokes, repoPath, engineVars, viewVars>>

\* openSquashModal, from the "Squash N commits" button, which the template
\* renders only with selectedCommits.size >= 2
openSquashModal ==
  /\ Len(selectedCommits) >= 2
  /\ IF Len(selectedCommits) < 2
     THEN /\ error' = SelectAtLeastTwo
          /\ UNCHANGED <<loading, editModal, squashModal, selectedCommits,
                         repoInfo, invokes, repoPath, engineVars, viewVars>>
     ELSE /\ squashModal' = ModalOpen(NoCommit)
          /\ UNCHANGED <<loading, error, editModal, selectedCommits, repoInfo,
                         invokes, repoPath, engineVars, viewVars>>

\* closeSquashModal: Cancel, the close button, the backdrop or Escape
closeSquashModal ==
  /\ squashModal' = ModalClosed
  /\ UNCHANGED <<loading, error, editModal, selectedCommits, repoInfo,
                 invokes, repoPath, engineVars, viewVars>>

\* faulty variant: the selection is passed whatever its size
performSquash_NoGuard ==
  /\ squashModal.isOpen
  /\ Len(invokes) < MaxInflight
  /\ loading' = TRUE
  /\ error' = NoError
  /\ invokes' = Append(invokes,
                       Invocation("squash_commits", selectedCommits,
                                  repoInfo.branch))
  /\ UNCHANGED <<editModal, squashModal, selectedCommits, repoInfo,
                 repoPath, engineVars, viewVars>>

\* faulty variant: the hashes are passed in the order of the list, not in
\* the order they were selected
performSquash_ListOrder ==
  /\ squashModal.isOpen
  /\ Len(invokes) < MaxInflight
  /\ IF repoPath = NoPath \/ Len(selectedCommits) < 2
     THEN UNCHANGED vars
     ELSE /\ loading' = TRUE
          /\ error' = NoError
          /\ invokes' = Append(invokes,
                               Invocation("squash_commits",
                                          SelectSeq(
                                            FirstParentPath(branches[current]),
                                            LAMBDA c :
                                              c \in Range(selectedCommits)),
                                          repoInfo.branch))
          /\ UNCHANGED <<editModal, squashModal, selectedCommits, repoInfo,
                         repoPath, engineVars, viewVars>>

\* performSquash, from the Squash button of the squash dialog; the button is
\* not disabled while loading
performSquash ==
  /\ squashModal.isOpen
  /\ Len(invokes) < MaxInflight
  /\ IF repoPath = NoPath \/ Len(selectedCommits) < 2
     THEN UNCHANGED vars
     ELSE /\ loading' = TRUE
          /\ error' = NoError
          /\ invokes' = Append(invokes,
                               Invocation("squash_commits", selectedCommits,
                                          repoInfo.branch))
          /\ UNCHANGED <<editModal, squashModal, selectedCommits, repoInfo,
                         repoPath, engineVars, viewVars>>

\* switchBranch(branchName), from the branch selector of the header
switchBranch ==
  /\ Len(invokes) < MaxInflight
  /\ \E branchName \in DOMAIN branches :
       IF repoPath = NoPath \/ branchName = repoInfo.branch
       THEN UNCHANGED vars
       ELSE /\ loading' = TRUE
            /\ error' = NoError
            /\ invokes' = Append(invokes,
                                 Invocation("switch_branch", <<>>, branchName))
            /\ UNCHANGED <<editModal, squashModal, selectedCommits, repoInfo,
                           repoPath, engineVars, viewVars>>

\* the Dismiss button of the error banner: error = null
dismissError ==
  /\ error # NoError
  /\ error' = NoError
  /\ UNCHANGED <<loading, editModal, squashModal, selectedCommits, repoInfo,
                 invokes, repoPath, engineVars, viewVars>>

\* an awaited invoke resolves and its handler runs on: the rest of the try
\* block, then finally { loading = false }
InvokeResolved ==
  \E i \in 1..Len(invokes) :
    LET inv == invokes[i]
    IN CASE inv.cmd = "edit_commit_message" ->
              /\ editModal' = ModalClosed
              /\ selectedCommits' = <<>>
              /\ loading' = FALSE
              /\ invokes' = Remove(invokes, i)
              /\ UNCHANGED <<error, squashModal, repoInfo, repoPath,
                             engineVars, viewVars>>
         [] inv.cmd = "squash_commits" ->
              /\ squashModal' = ModalClosed
              /\ selectedCommits' = <<>>
              /\ loading' = FALSE
              /\ invokes' = Remove(invokes, i)
              /\ UNCHANGED <<error, editModal, repoInfo, repoPath,
                             engineVars, viewVars>>
         [] inv.cmd = "switch_branch" ->
              /\ invokes' = [invokes EXCEPT ![i].cmd = "get_repo_info"]
              /\ UNCHANGED <<loading, error, editModal, squashModal,
                             selectedCommits, repoInfo, repoPath,
                             engineVars, viewVars>>
         [] inv.cmd = "get_repo_info" ->
              /\ repoInfo' = [branch |-> inv.branchName]
              /\ invokes' = [invokes EXCEPT ![i].cmd = "get_branches"]
              /\ UNCHANGED <<loading, error, editModal, squashModal,
                             selectedCommits, repoPath, engineVars, viewVars>>
         [] inv.cmd = "get_branches" ->
              /\ selectedCommits' = <<>>
              /\ loading' = FALSE
              /\ invokes' = Remove(invokes, i)
              /\ UNCHANGED <<error, editModal, squashModal, repoInfo,
                             repoPath, engineVars, viewVars>>

\* faulty variant: the failure is swallowed and the dialog closed
InvokeRejected_Swallowed ==
  \E i \in 1..Len(invokes) : \E e \in Failures :
    /\ editModal' = ModalClosed
    /\ squashModal' = ModalClosed
    /\ loading' = FALSE
    /\ invokes' = Remove(invokes, i)
    /\ UNCHANGED <<error, selectedCommits, repoInfo, repoPath,
                   engineVars, viewVars>>

\* an awaited invoke rejects with e: catch (e) { error = String(e) }, then
\* finally { loading = false }
InvokeRejected ==
  \E i \in 1..Len(invokes) : \E e \in Failures :
    /\ error' = e
    /\ loading' = FALSE
    /\ invokes' = Remove(invokes, i)
    /\ UNCHANGED <<editModal, squashModal, selectedCommits, repoInfo,
                   repoPath, engineVars, viewVars>>

Next ==
  \/ EditCommitMessage
  \/ SquashCommits
  \/ Guard
  \/ Linearize
  \/ Plan
  \/ WriteStep
  \/ Advance
  \/ Pop
  \/ Return
  \/ ExternalReset

Spec == Init /\ [][Next]_vars

SpecExample == InitExample /\ [][Next]_vars

\* the page: user events and the replies to its invocations
NextPage ==
  \/ handleSelectionChange
  \/ openEditModal
  \/ closeEditModal
  \/ saveEditMessage
  \/ openSquashModal
  \/ closeSquashModal
  \/ performSquash
  \/ switchBranch
  \/ dismissError
  \/ InvokeResolved
  \/ InvokeRejected

SpecPage == InitPage /\ [][NextPage]_vars

\* the application: the engine serving a caller while no repository is open
\* in the page, or the page with its repository open
InitApp == Init \/ InitPage

NextApp == Next \/ NextPage

SpecApp == InitApp /\ [][NextApp]_vars

(* ----------------------------- graph layout --------------------------- *)

\* GRAPH.COLOR_COUNT
COLOR_COUNT == 8

\* activeRails[i] = null
NullRail == <<>>

\* activeRails[railIdx], rails being counted from 0
RailAt(activeRails, railIdx) == activeRails[railIdx + 1]

Max(a, b) == IF a >= b THEN a ELSE b

\* array.indexOf(x) followed by splice(idx, 1) when idx is not -1
RemoveFirst(array, x) ==
  IF x \notin Range(array) THEN array
  ELSE LET idx == CHOOSE i \in 1..Len(array) :
                    array[i] = x /\ \A j \in 1..(i - 1) : array[j] # x
       IN SubSeq(array, 1, idx - 1) \o SubSeq(array, idx + 1, Len(array))

\* activeRails.findIndex(pred), -1 when no entry satisfies it; holds is the
\* set of the positions of activeRails whose entry satisfies pred
FindIndex(activeRails, holds) ==
  IF holds = {} THEN -1
  ELSE (CHOOSE i \in holds : \A j \in holds : i <= j) - 1

GraphConnection(fromRail, toRail, type, colorIndex) ==
  [fromRail |-> fromRail, toRail |-> toRail, type |-> type,
   colorIndex |-> colorIndex]

\* the rails not involved in the connections of the commit on myRail that
\* expect a commit, lowest first, each with its colour
PassThroughRails(activeRails, myRail, connections) ==
  LET involvedRails ==
        {myRail} \cup {connections[k].fromRail : k \in 1..Len(connections)}
                 \cup {connections[k].toRail : k \in 1..Len(connections)}
      through == SelectSeq([i \in 1..Len(activeRails) |-> i - 1],
                           LAMBDA i : /\ RailAt(activeRails, i) # NullRail
                                      /\ i \notin involvedRails)
  IN [k \in 1..Len(through) |->
        [rail |-> through[k],
         colorIndex |-> RailAt(activeRails, through[k])[2]]]

GraphNode(rail, colorIndex, connections, passThroughRails) ==
  [rail |-> rail, colorIndex |-> colorIndex, connections |-> connections,
   passThroughRails |-> passThroughRails]

\* the commits a list may hold at position i of n: hash i, and no parent,
\* one or two, each a commit further down the list or one that is missing
\* from it
GraphCommitsAt(i, n) ==
  LET older == (i + 1..n) \cup {MissingHash}
  IN {[hash |-> i, parent_ids |-> <<>>]} \cup
     {[hash |-> i, parent_ids |-> <<p>>] : p \in older} \cup
     {[hash |-> i, parent_ids |-> <<p[1], p[2]>>] :
        p \in {q \in older \X older : q[1] # q[2]}}

RECURSIVE GraphListsFrom(_, _)
\* the lists of n commits, newest first, from position i on
GraphListsFrom(i, n) ==
  IF i > n THEN {<<>>}
  ELSE {<<c>> \o rest : c \in GraphCommitsAt(i, n),
                        rest \in GraphListsFrom(i + 1, n)}

\* --- the optimized function

\* setRailExpecting(railIdx, hash, color)
setRailExpecting(s, railIdx, hash, color) ==
  [s EXCEPT !.activeRails[railIdx + 1] = <<hash, color>>,
            !.hashToRails[hash] = Append(@, railIdx)]

\* clearRail(railIdx): nothing for a rail that is null; else the rail is
\* taken out of the array of the hash it expects (an empty array stands for
\* a deleted key), set to null and pushed on emptyRails
clearRail(s, railIdx) ==
  LET rail == RailAt(s.activeRails, railIdx)
  IN IF rail = NullRail THEN s
     ELSE [s EXCEPT !.hashToRails[rail[1]] = RemoveFirst(@, railIdx),
                    !.activeRails[railIdx + 1] = NullRail,
                    !.emptyRails = Append(@, railIdx),
                    !.activeRailCount = @ - 1]

\* allocateRail(): the state it leaves and the rail it returns
allocateRail(s) ==
  IF Len(s.emptyRails) > 0
  THEN [s |-> [s EXCEPT !.activeRailCount = @ + 1,
                        !.emptyRails = SubSeq(@, 1, Len(@) - 1)],
        rail |-> s.emptyRails[Len(s.emptyRails)]]
  ELSE [s |-> [s EXCEPT !.activeRailCount = @ + 1,
                        !.activeRails = Append(@, NullRail)],
        rail |-> Len(s.activeRails)]

RECURSIVE ClearExpecting(_, _, _, _)
\* for (const railIdx of railsToClear): a merge line from every rail other
\* than myRail, then clearRail; reading the colour of a rail that is null
\* throws a TypeError
ClearExpecting(s, railsToClear, myRail, connections) ==
  IF railsToClear = <<>>
  THEN [s |-> s, connections |-> connections, threw |-> FALSE]
  ELSE LET railIdx == Head(railsToClear)
       IN IF railIdx = myRail
          THEN ClearExpecting(clearRail(s, railIdx), Tail(railsToClear),
                              myRail, connections)
          ELSE IF RailAt(s.activeRails, railIdx) = NullRail
          THEN [s |-> s, connections |-> connections, threw |-> TRUE]
          ELSE ClearExpecting(
                 clearRail(s, railIdx), Tail(railsToClear), myRail,
                 Append(connections,
                        GraphConnection(railIdx, myRail, "merge",
                                        RailAt(s.activeRails, railIdx)[2])))

\* the first parent continues on myRail. stillExpecting is
\* railsExpectingMe.length read after the clearing loop: railsExpectingMe is
\* the very array of hashToRails that clearRail has spliced
FirstParentRail(s, stillExpecting, myRail, myColor, parentHash, commitSet, connections) ==
  LET counted == IF stillExpecting = 0 THEN s
                 ELSE [s EXCEPT !.activeRailCount = @ + 1,
                                !.emptyRails = RemoveFirst(@, myRail)]
  IN [s |-> setRailExpecting(counted, myRail, parentHash, myColor),
      connections |->
        IF parentHash \in commitSet
        THEN Append(connections,
                    GraphConnection(myRail, myRail, "straight", myColor))
        ELSE connections,
      threw |-> FALSE]

RECURSIVE OtherParentRails(_, _, _, _)
\* the parents after the first: a branch line to the first rail that
\* expects the parent, or to a rail allocated for it
OtherParentRails(s, parent_ids, myRail, connections) ==
  IF parent_ids = <<>>
  THEN [s |-> s, connections |-> connections, threw |-> FALSE]
  ELSE LET parentHash == Head(parent_ids)
           existingRails == s.hashToRails[parentHash]
       IN IF Len(existingRails) > 0
          THEN IF RailAt(s.activeRails, existingRails[1]) = NullRail
               THEN [s |-> s, connections |-> connections, threw |-> TRUE]
               ELSE OtherParentRails(
                      s, Tail(parent_ids), myRail,
                      Append(connections,
                             GraphConnection(
                               myRail, existingRails[1], "branch",
                               RailAt(s.activeRails, existingRails[1])[2])))
          ELSE LET a == allocateRail(s)
                   newColor == s.colorCounter % COLOR_COUNT
               IN OtherParentRails(
                    setRailExpecting([a.s EXCEPT !.colorCounter = @ + 1],
                                     a.rail, parentHash, newColor),
                    Tail(parent_ids), myRail,
                    Append(connections,
                           GraphConnection(myRail, a.rail, "branch",
                                           newColor)))

\* one turn of the loop of the optimized function, for commit
OptimizedStep(s, commit, commitSet) ==
  LET railsExpectingMe == s.hashToRails[commit.hash]
      expected == Len(railsExpectingMe) > 0
      a == IF expected THEN [s |-> s, rail |-> railsExpectingMe[1]]
           ELSE allocateRail(s)
      myRail == a.rail
  IN IF expected /\ RailAt(s.activeRails, myRail) = NullRail
     THEN [s EXCEPT !.threw = TRUE]
     ELSE
     LET myColor == IF expected THEN RailAt(s.activeRails, myRail)[2]
                    ELSE s.colorCounter % COLOR_COUNT
         s1 == IF expected THEN s ELSE [a.s EXCEPT !.colorCounter = @ + 1]
         cleared == ClearExpecting(s1, railsExpectingMe, myRail, <<>>)
         stillExpecting == Len(cleared.s.hashToRails[commit.hash])
         parentCount == Len(commit.parent_ids)
         first ==
           IF cleared.threw THEN cleared
           ELSE IF parentCount = 0
           THEN [s |-> IF stillExpecting = 0
                       THEN [cleared.s EXCEPT
                               !.activeRailCount = @ - 1,
                               !.emptyRails = Append(@, myRail)]
                       ELSE cleared.s,
                 connections |-> cleared.connections, threw |-> FALSE]
           ELSE FirstParentRail(cleared.s, stillExpecting, myRail, myColor,
                                commit.parent_ids[1], commitSet,
                                cleared.connections)
         rest == IF first.threw \/ parentCount < 2 THEN first
                 ELSE OtherParentRails(first.s, Tail(commit.parent_ids),
                                       myRail, first.connections)
     IN IF rest.threw THEN [s EXCEPT !.threw = TRUE]
        ELSE [rest.s EXCEPT
                !.maxRails = Max(Max(@, rest.s.activeRailCount), myRail + 1),
                !.nodes =
                  Append(@, GraphNode(myRail, myColor, rest.connections,
                                      PassThroughRails(rest.s.activeRails,
                                                       myRail,
                                                       rest.connections)))]

\* --- the original function

\* the rail found by activeRails.findIndex(r => r === null), or a rail
\* added to the array
FreeRail(activeRails) ==
  LET emptyRail == FindIndex(activeRails,
                             {i \in 1..Len(activeRails) :
                                activeRails[i] = NullRail})
  IN IF emptyRail # -1
     THEN [activeRails |-> activeRails, rail |-> emptyRail]
     ELSE [activeRails |-> Append(activeRails, NullRail),
           rail |-> Len(activeRails)]

RECURSIVE OriginalOtherParents(_, _, _, _)
OriginalOtherParents(s, parent_ids, myRail, connections) ==
  IF parent_ids = <<>> THEN [s |-> s, connections |-> connections]
  ELSE LET parentHash == Head(parent_ids)
           existingRail ==
             FindIndex(s.activeRails,
                       {i \in 1..Len(s.activeRails) :
                          /\ s.activeRails[i] # NullRail
                          /\ s.activeRails[i][1] = parentHash})
       IN IF existingRail # -1
          THEN OriginalOtherParents(
                 s, Tail(parent_ids), myRail,
                 Append(connections,
                        GraphConnection(
                          myRail, existingRail, "branch",
                          RailAt(s.activeRails, existingRail)[2])))
          ELSE LET f == FreeRail(s.activeRails)
                   newColor == s.colorCounter % 8
               IN OriginalOtherParents(
                    [s EXCEPT !.colorCounter = @ + 1,
                              !.activeRails =
                                [f.activeRails EXCEPT
                                   ![f.rail + 1] = <<parentHash, newColor>>]],
                    Tail(parent_ids), myRail,
                    Append(connections,
                           GraphConnection(myRail, f.rail, "branch",
                                           newColor)))

\* one turn of the loop of the original function, for commit
OriginalStep(s, commit, commitSet) ==
  LET railsExpectingMe ==
        SelectSeq([i \in 1..Len(s.activeRails) |-> i - 1],
                  LAMBDA i : /\ RailAt(s.activeRails, i) # NullRail
                             /\ RailAt(s.activeRails, i)[1] = commit.hash)
      expected == Len(railsExpectingMe) > 0
      f == FreeRail(s.activeRails)
      myRail == IF expected THEN railsExpectingMe[1] ELSE f.rail
      myColor == IF expected THEN RailAt(s.activeRails, myRail)[2]
                 ELSE s.colorCounter % 8
      merges == SelectSeq(railsExpectingMe, LAMBDA i : i # myRail)
      connections ==
        [k \in 1..Len(merges) |->
           GraphConnection(merges[k], myRail, "merge",
                           RailAt(s.activeRails, merges[k])[2])]
      rails == IF expected THEN s.activeRails ELSE f.activeRails
      s1 == [s EXCEPT !.activeRails =
                        [i \in 1..Len(rails) |->
                           IF (i - 1) \in Range(railsExpectingMe)
                           THEN NullRail ELSE rails[i]],
                      !.colorCounter = IF expected THEN @ ELSE @ + 1]
      parentCount == Len(commit.parent_ids)
      first ==
        IF parentCount = 0
        THEN [s |-> [s1 EXCEPT !.activeRails[myRail + 1] = NullRail],
              connections |-> connections]
        ELSE [s |-> [s1 EXCEPT !.activeRails[myRail + 1] =
                                 <<commit.parent_ids[1], myColor>>],
              connections |->
                IF commit.parent_ids[1] \in commitSet
                THEN Append(connections,
                            GraphConnection(myRail, myRail, "straight",
                                            myColor))
                ELSE connections]
      rest == IF parentCount < 2 THEN first
              ELSE OriginalOtherParents(first.s, Tail(commit.parent_ids),
                                        myRail, first.connections)
      activeCount ==
        Cardinality({i \in 1..Len(rest.s.activeRails) :
                       rest.s.activeRails[i] # NullRail})
  IN [rest.s EXCEPT
        !.maxRails = Max(Max(@, activeCount), myRail + 1),
        !.nodes = Append(@, GraphNode(myRail, myColor, rest.connections,
                                      PassThroughRails(rest.s.activeRails,
                                                       myRail,
                                                       rest.connections)))]

\* for (const commit of commits): the next commit goes through both
\* functions; a function that has thrown has ended
processCommit ==
  /\ graphPos < Len(graphCommits)
  /\ ~optimized.threw
  /\ LET commit == graphCommits[graphPos + 1]
         commitSet == {graphCommits[i].hash : i \in 1..Len(graphCommits)}
     IN /\ optimized' = OptimizedStep(optimized, commit, commitSet)
        /\ original' = OriginalStep(original, commit, commitSet)
  /\ graphPos' = graphPos + 1
  /\ UNCHANGED <<graphCommits, engineVars, pageVars, diffVars, listVars>>

\* both functions called with a list of up to MaxGraphCommits commits
InitGraph ==
  /\ InitWith(ListedLen, 0, 1, 0, 0)
  /\ PageInit("repo")
  /\ DiffInit
  /\ ListInit
  /\ \E n \in 0..MaxGraphCommits : \E list \in GraphListsFrom(1, n) :
       GraphInit(list)

NextGraph == processCommit

SpecGraph == InitGraph /\ [][NextGraph]_vars

(* ------------------------------ diff dialog --------------------------- *)

\* openDiffModal(commit), from the diff button of a listed commit, which the
\* backdrop of an open dialog covers: diffModal.open(), setLoading(true),
\* then invoke('get_commit_diff')
openDiffModal ==
  /\ repoPath # NoPath
  /\ ~diffModal.isOpen
  /\ Len(diffRequests) < MaxInflight
  /\ \E commit \in store :
       /\ diffRequests' = Append(diffRequests, commit)
       /\ lastViewed' = commit
  /\ diffModal' = [isOpen |-> TRUE, data |-> NoDiff, loading |-> TRUE]
  /\ UNCHANGED <<engineVars, pageVars, listVars, graphVars>>

\* closeDiffModal: the backdrop, the close button or Escape
closeDiffModal ==
  /\ diffModal.isOpen
  /\ diffModal' = AsyncModalClosed
  /\ UNCHANGED <<diffRequests, lastViewed, engineVars, pageVars, listVars,
                 graphVars>>

\* get_commit_diff resolves: diffModal.setData(data), then finally
\* diffModal.setLoading(false)
diffResolved ==
  /\ \E i \in 1..Len(diffRequests) :
       /\ diffModal' = [diffModal EXCEPT
                          !.data = CommitDiff(diffRequests[i]),
                          !.loading = FALSE]
       /\ diffRequests' = Remove(diffRequests, i)
  /\ UNCHANGED <<lastViewed, engineVars, pageVars, listVars, graphVars>>

\* get_commit_diff is rejected: error = String(e), diffModal.close(), then
\* finally diffModal.setLoading(false)
diffRejected ==
  /\ \E i \in 1..Len(diffRequests) : diffRequests' = Remove(diffRequests, i)
  /\ \E e \in Failures : error' = e
  /\ diffModal' = AsyncModalClosed
  /\ UNCHANGED <<lastViewed, engineVars, repoPath, repoInfo, loading,
                 editModal, squashModal, selectedCommits, invokes, listVars,
                 graphVars>>

\* the page with a repository open and its diff dialog
InitDiff == InitWith(ListedLen, 0, 1, 0, 0) /\ PageInit("repo") /\ ViewInit

NextDiff ==
  \/ openDiffModal
  \/ closeDiffModal
  \/ diffResolved
  \/ diffRejected

SpecDiff == InitDiff /\ [][NextDiff]_vars

(* ------------------------------ commit list --------------------------- *)

\* the repositories the page can open
Paths == {"repo", "other"}

\* the texts the search box can hold
Queries == {"", " ", "a"}

\* query.trim()
Trim(query) == IF query = " " THEN "" ELSE query

\* total_count: the commits of the repository, or those that match the
\* query
TotalCount(query) == IF Trim(query) = "" THEN ListedLen ELSE 1

\* the CommitPage that get_commits / search_commits returns: the commits at
\* offset .. offset + limit - 1, each known by the repository, the query and
\* its position
CommitPage(path, query, offset) ==
  LET last == IF offset + PageSize < TotalCount(query)
              THEN offset + PageSize ELSE TotalCount(query)
  IN [commits |-> [k \in 1..(IF last > offset THEN last - offset ELSE 0) |->
                     [repoPath |-> path, query |-> Trim(query),
                      index |-> offset + k]],
      has_more |-> offset + PageSize < TotalCount(query)]

\* the $state of CommitList as one value
ListState ==
  [commits |-> commits, listLoading |-> listLoading, hasMore |-> hasMore,
   listError |-> listError, searchQuery |-> searchQuery,
   searchTimeout |-> searchTimeout, currentRepoPath |-> currentRepoPath,
   fetches |-> fetches, due |-> due]

\* the $state of CommitList after the step
SetList(l) ==
  /\ commits' = l.commits
  /\ listLoading' = l.listLoading
  /\ hasMore' = l.hasMore
  /\ listError' = l.listError
  /\ searchQuery' = l.searchQuery
  /\ searchTimeout' = l.searchTimeout
  /\ currentRepoPath' = l.currentRepoPath
  /\ fetches' = l.fetches
  /\ due' = l.due

\* the invoke of loadCommits awaiting its reply; serves says that it was
\* started for the reload last asked for
Fetch(reset, path, query, offset) ==
  [cmd |-> IF Trim(query) # "" THEN "search_commits" ELSE "get_commits",
   reset |-> reset, repoPath |-> path, query |-> Trim(query),
   offset |-> offset, serves |-> FALSE]

\* faulty variant: a fetch is started while another is under way
loadCommits_NoLoadingCheck(reset, query, l) ==
  IF (~reset /\ ~l.hasMore) \/ l.currentRepoPath = ""
  THEN l
  ELSE [l EXCEPT !.listLoading = TRUE,
                 !.listError = NoError,
                 !.fetches =
                   Append(@, Fetch(reset, l.currentRepoPath, query,
                                   IF reset THEN 0 ELSE Len(l.commits)))]

\* loadCommits(reset, query) up to its await: the three early returns, then
\* loading = true, error = null and the invoke at offset 0 or commits.length
loadCommits(reset, query, l) ==
  IF l.listLoading \/ (~reset /\ ~l.hasMore) \/ l.currentRepoPath = ""
  THEN l
  ELSE [l EXCEPT !.listLoading = TRUE,
                 !.listError = NoError,
                 !.fetches =
                   Append(@, Fetch(reset, l.currentRepoPath, query,
                                   IF reset THEN 0 ELSE Len(l.commits)))]

\* a reload is asked for: no fetch under way was started for it
Asked(l) ==
  [l EXCEPT !.due = TRUE,
            !.fetches = [i \in 1..Len(@) |-> [@[i] EXCEPT !.serves = FALSE]]]

\* loadCommits(true, query) called for a reload: the fetch it starts, if it
\* starts one for the query in the search box, serves the reload
Reload(query, l) ==
  LET asked == Asked(l)
      started == loadCommits(TRUE, query, asked)
  IN IF /\ Len(started.fetches) > Len(asked.fetches)
        /\ Trim(query) = Trim(l.searchQuery)
     THEN [started EXCEPT !.fetches[Len(started.fetches)].serves = TRUE]
     ELSE started

\* loadRepo(path) has set repoPath = path, and the $effect of CommitList
\* runs: with a path that is not currentRepoPath it takes the path, empties
\* the search box and the list, and calls loadCommits(true, '')
loadRepo ==
  /\ \E path \in Paths :
       /\ path # repoPath
       /\ repoPath' = path
       /\ repoInfo' = RepoInfo(path)
       /\ SetList(IF path # currentRepoPath
                  THEN Reload("", [ListState EXCEPT
                                     !.currentRepoPath = path,
                                     !.searchQuery = "",
                                     !.hasMore = TRUE,
                                     !.commits = <<>>])
                  ELSE ListState)
  /\ UNCHANGED <<engineVars, loading, error, editModal, squashModal,
                 selectedCommits, invokes, diffVars, graphVars>>

\* handleSearchInput: searchQuery takes the text typed and the debounce timer
\* is set again
handleSearchInput ==
  /\ repoPath # NoPath
  /\ \E newValue \in Queries \ {searchQuery} :
       SetList(Asked([ListState EXCEPT !.searchQuery = newValue,
                                       !.searchTimeout = newValue]))
  /\ UNCHANGED <<engineVars, pageVars, diffVars, graphVars>>

\* the debounce timer fires: loadCommits(true, newValue), with the text typed
\* when the timer was set
debounceFires ==
  /\ searchTimeout # NoTimeout
  /\ SetList(Reload(searchTimeout,
                    [ListState EXCEPT !.searchTimeout = NoTimeout]))
  /\ UNCHANGED <<engineVars, pageVars, diffVars, graphVars>>

\* clearSearch, from the button shown with a text in the search box
clearSearch ==
  /\ repoPath # NoPath
  /\ searchQuery # ""
  /\ SetList(Reload("", [ListState EXCEPT !.searchQuery = "",
                                          !.searchTimeout = NoTimeout]))
  /\ UNCHANGED <<engineVars, pageVars, diffVars, graphVars>>

\* handleScroll near the bottom of the list: loadCommits(false, searchQuery)
handleScroll ==
  /\ repoPath # NoPath
  /\ ~listLoading /\ hasMore
  /\ SetList(loadCommits(FALSE, searchQuery, ListState))
  /\ UNCHANGED <<engineVars, pageVars, diffVars, graphVars>>

\* refresh(), which the page calls after an edit, a squash or a branch
\* switch that succeeded: loadCommits(true, searchQuery)
refresh ==
  /\ repoPath # NoPath
  /\ SetList(Reload(searchQuery, ListState))
  /\ UNCHANGED <<engineVars, pageVars, diffVars, graphVars>>

\* the invoke of loadCommits resolves: the page replaces the list or is
\* appended to it, hasMore is taken from it, then finally loading = false
fetchResolved ==
  /\ \E i \in 1..Len(fetches) :
       LET f == fetches[i]
           result == CommitPage(f.repoPath, f.query, f.offset)
       IN /\ commits' = IF f.reset THEN result.commits
                        ELSE commits \o result.commits
          /\ hasMore' = result.has_more
          /\ due' = IF f.serves THEN FALSE ELSE due
          /\ fetches' = Remove(fetches, i)
  /\ listLoading' = FALSE
  /\ UNCHANGED <<listError, searchQuery, searchTimeout, currentRepoPath,
                 engineVars, pageVars, diffVars, graphVars>>

\* the invoke of loadCommits is rejected: error = String(e), then finally
\* loading = false; the reload it was started for has been answered
fetchRejected ==
  /\ \E i \in 1..Len(fetches) :
       /\ due' = IF fetches[i].serves THEN FALSE ELSE due
       /\ fetches' = Remove(fetches, i)
  /\ \E e \in Failures : listError' = e
  /\ listLoading' = FALSE
  /\ UNCHANGED <<commits, hasMore, searchQuery, searchTimeout,
                 currentRepoPath, engineVars, pageVars, diffVars, graphVars>>

\* the page before a repository is opened; CommitList is created when one
\* is
InitList == InitWith(ListedLen, 0, 1, 0, 0) /\ PageInit(NoPath) /\ ViewInit

NextList ==
  \/ loadRepo
  \/ handleSearchInput
  \/ debounceFires
  \/ clearSearch
  \/ handleScroll
  \/ refresh
  \/ fetchResolved
  \/ fetchRejected

SpecList == InitList /\ [][NextList]_vars

(* ------------------------- vocabulary of the claims -------------------- *)

\* the operation has returned Ok(new tip)
Succeeded == pc = "done" /\ op.result = "ok"

\* the line of history the operation read, and the one the branch is on
\* now, both oldest first
OldLine == Reverse(FirstParentPath(op.start_tip))
NewLine == Reverse(FirstParentPath(branches[current]))

\* the one target of an edit
EditTarget == CHOOSE t \in op.targets : TRUE

\* the working tree was dirty when the guard ran
WasDirty == ~IsClean(pre.worktree)

\* the entry the guard saves for the tree it found
AutoStashEntry ==
  [base |-> pre.worktree.base, changes |-> pre.worktree.changes,
   message |-> "git-rewrite-auto-stash"]

\* the result of an operation the planner refuses with planError: the error
\* of the guard, of the pop or of the linearizer when one of them fails
ResultOr(planError) ==
  IF WasDirty /\ ~op.auto_stash THEN "DirtyWorkingDirectory"
  ELSE IF op.pop = "failed" THEN "StashRestoreConflict"
  ELSE IF \E c \in Range(Walked(FirstParentPath(pre.branches[current]),
                                op.targets)) : IsMerge(c)
  THEN "UnsupportedMergeCommit"
  ELSE IF \E t \in op.targets : IsRoot(t) THEN "InitialCommitUnmodifiable"
  ELSE planError

\* another actor has moved the branch since the guard ran
MovedByOther == extLeft < pre.extLeft

\* the operation has written nothing and has not moved the branch
NothingDone ==
  /\ op.written = <<>>
  /\ store = pre.store
  /\ op.rewrite # "ok"
  /\ ~MovedByOther => branches = pre.branches

(* --------------------------------- C1 ---------------------------------- *)

\* C1 as stated: after a successful editMessage(k, newMessage) on a commit k
\* below the tip, the commit at the position of k and at every position
\* above it differs from the original one, and every commit below k is the
\* original one, still on the line of the new tip.
C1_Original ==
  (Succeeded /\ op.kind = "edit" /\ EditTarget # op.start_tip) =>
    LET k == IndexOf(OldLine, EditTarget)
    IN /\ Len(NewLine) = Len(OldLine)
       /\ \A j \in 1..Len(OldLine) :
            IF j < k THEN NewLine[j] = OldLine[j]
            ELSE OldLine[j] \notin Range(NewLine)

\* C1 (amended): the same, for a newMessage that differs from the message k
\* has; with the message k already has, every commit is written with the
\* fields of its original and keeps its hash.
C1_EditBelowTip ==
  (Succeeded /\ op.kind = "edit" /\ EditTarget # op.start_tip) =>
    LET k == IndexOf(OldLine, EditTarget)
    IN /\ Len(NewLine) = Len(OldLine)
       /\ \A j \in 1..Len(OldLine) :
            IF j < k THEN NewLine[j] = OldLine[j]
            ELSE IF op.new_message # EditTarget.message
            THEN OldLine[j] \notin Range(NewLine)
            ELSE NewLine[j] = OldLine[j]

C1_Witness ==
  /\ Succeeded /\ op.kind = "edit"
  /\ op.new_message # EditTarget.message
  /\ IndexOf(OldLine, EditTarget) = 2
  /\ Len(OldLine) = 4

(* --------------------------------- C2 ---------------------------------- *)

\* C2: after a successful editMessage(target, newMessage) the commits
\* written are, in order, the line of the new tip from the position of
\* target upwards, one per original commit from target to the old tip; each
\* has the tree, author and date of its original; the one for target has
\* newMessage, every other one its original's message; the branch points to
\* the last one.
C2_EditRewritesChain ==
  (Succeeded /\ op.kind = "edit") =>
    LET k == IndexOf(OldLine, EditTarget)
    IN /\ k > 0
       /\ Len(NewLine) = Len(OldLine)
       /\ op.written = SubSeq(NewLine, k, Len(NewLine))
       /\ \A j \in k..Len(OldLine) :
            /\ NewLine[j].tree = OldLine[j].tree
            /\ NewLine[j].author = OldLine[j].author
            /\ NewLine[j].date = OldLine[j].date
            /\ NewLine[j].message =
                 IF j = k THEN op.new_message ELSE OldLine[j].message
       /\ branches[current] = op.written[Len(op.written)]

C2_Witness ==
  /\ Succeeded /\ op.kind = "edit"
  /\ IndexOf(OldLine, EditTarget) = 2
  /\ Len(OldLine) = 4
  /\ op.new_message # OldLine[2].message
  /\ op.new_message # OldLine[4].message

(* --------------------------------- C4 ---------------------------------- *)

C5_EditTip ==
  (Succeeded /\ op.kind = "edit" /\ EditTarget = op.start_tip) =>
    /\ branches[current].tree = op.start_tip.tree
    /\ branches[current].parent_ids = op.start_tip.parent_ids
    /\ Len(NewLine) = Len(OldLine)
    /\ \A j \in 1..Len(OldLine) - 1 : NewLine[j] = OldLine[j]
    /\ store = pre.store \cup {branches[current]}

C5_Witness ==
  /\ Succeeded /\ op.kind = "edit" /\ EditTarget = op.start_tip
  /\ Len(OldLine) = 3
  /\ branches[current] # op.start_tip

(* --------------------------------- C3 ---------------------------------- *)

\* the squash of the example: the line read is A-B-C-D-E-F and the targets
\* are B, C and D
ExampleSquash ==
  /\ Succeeded /\ op.kind = "squash"
  /\ Len(OldLine) = ExampleLen
  /\ op.targets = {OldLine[2], OldLine[3], OldLine[4]}

\* the line A-BCD'-E'-F' with the trees, messages and parents C3 names
ExampleShape ==
  /\ Len(NewLine) = 4
  /\ NewLine[1] = OldLine[1]
  /\ NewLine[2].tree = OldLine[4].tree
  /\ NewLine[2].message = op.new_message
  /\ NewLine[2].parent_ids = <<OldLine[1]>>
  /\ NewLine[3].tree = OldLine[5].tree
  /\ NewLine[3].message = OldLine[5].message
  /\ NewLine[3].parent_ids = <<NewLine[2]>>
  /\ NewLine[4].tree = OldLine[6].tree
  /\ NewLine[4].message = OldLine[6].message
  /\ NewLine[4].parent_ids = <<NewLine[3]>>
  /\ op.written = SubSeq(NewLine, 2, 4)

\* C3 as stated: squashing B, C, D of A-B-C-D-E-F gives A-BCD'-E'-F' where
\* BCD' has the tree of D, newMessage and parent A, E' and F' have the trees
\* and messages of E and F on recomputed parents, three commits are written
\* (none for B or C), and E' and F' were not in the store before.
C3_Original ==
  ExampleSquash =>
    /\ ExampleShape
    /\ NewLine[3] \notin pre.store
    /\ NewLine[4] \notin pre.store

\* C3 (amended): the same line A-BCD'-E'-F'; E' and F' are written by the
\* squash and differ from E and F, and they are new to the store unless an
\* earlier rewrite already wrote commits with the same fields.
C3_SquashExample ==
  ExampleSquash =>
    /\ ExampleShape
    /\ NewLine[3] # OldLine[5]
    /\ NewLine[4] # OldLine[6]
    /\ {NewLine[3], NewLine[4]} \cap Range(OldLine) = {}

C3_Witness ==
  /\ ExampleSquash
  /\ NewLine[3] \notin pre.store
  /\ NewLine[4] \notin pre.store
  /\ op.new_message # OldLine[4].message

(* --------------------------------- C6 ---------------------------------- *)

\* C6: with a dirty tree and autoStash, the auto-stash entry is on top of
\* the stash from the end of the guard until the pop, through every step of
\* the rewrite, and the operation never returns without the pop having been
\* attempted, whether the rewrite succeeded or failed.
C6_PopOnEveryExit ==
  (pc \notin {"idle", "guard"} /\ WasDirty /\ op.auto_stash) =>
    /\ op.did_stash
    /\ pc \in {"linearize", "plan", "write", "advance", "pop"} =>
         /\ op.pop = "none"
         /\ stash = <<AutoStashEntry>> \o pre.stash
    /\ pc = "done" => op.pop \in {"ok", "failed"}

C6_Witness ==
  /\ pc = "done" /\ WasDirty /\ op.auto_stash
  /\ op.rewrite = "ObjectWriteFailure"
  /\ op.pop = "ok"

(* --------------------------------- C7 ---------------------------------- *)

\* C7: with a dirty tree and autoStash false the operation goes from the
\* guard straight to its result DirtyWorkingDirectory: the linearizer never
\* reads the tip, no commit is written, the store, the stash, the working
\* tree and the branches are what they were.
C7_DirtyWithoutAutoStash ==
  (pc \notin {"idle", "guard"} /\ WasDirty /\ ~op.auto_stash) =>
    /\ pc = "done"
    /\ op.result = "DirtyWorkingDirectory"
    /\ op.start_tip = NoCommit
    /\ op.written = <<>>
    /\ store = pre.store
    /\ stash = pre.stash
    /\ worktree = pre.worktree
    /\ branches = pre.branches

C7_Witness ==
  /\ pc = "done" /\ WasDirty /\ ~op.auto_stash
  /\ op.kind = "squash"
  /\ Cardinality(op.targets) = 2

(* --------------------------------- C8 ---------------------------------- *)

\* C8: with a dirty tree and autoStash, once the operation has succeeded the
\* working tree is the one found by the guard, uncommitted changes included,
\* and the stash is the one found by the guard: no auto-stash entry is left.
C8_StashRoundTrip ==
  (Succeeded /\ WasDirty /\ op.auto_stash) =>
    /\ worktree = pre.worktree
    /\ stash = pre.stash

C8_Witness ==
  /\ Succeeded /\ WasDirty /\ op.auto_stash
  /\ op.kind = "squash"
  /\ branches[current] # op.start_tip

(* --------------------------------- C9 ---------------------------------- *)

\* C9: when the pop fails the result is StashRestoreConflict, whatever the
\* rewrite returned, and the entry the guard saved is still on top of the
\* stash.
C9_FailedPopKeepsEntry ==
  (pc = "done" /\ op.pop = "failed") =>
    /\ op.result = "StashRestoreConflict"
    /\ stash = <<AutoStashEntry>> \o pre.stash

C9_Witness ==
  /\ pc = "done" /\ op.pop = "failed"
  /\ op.rewrite = "ok"

(* --------------------------------- C10 --------------------------------- *)

\* the root commit is the target of the edit or among those of the squash
RootTargeted == op.kind # "none" /\ \E t \in op.targets : IsRoot(t)

\* C10 as stated: an edit of the root commit and a squash whose oldest
\* target is the root commit return InitialCommitUnmodifiable, with nothing
\* written and the branches unmoved.
C10_Original ==
  (pc = "done" /\ RootTargeted) =>
    /\ op.result = "InitialCommitUnmodifiable"
    /\ store = pre.store
    /\ branches = pre.branches

\* C10 (amended): such an operation always fails with nothing written and
\* the branches unmoved; its error is InitialCommitUnmodifiable unless the
\* guard refused the dirty tree (DirtyWorkingDirectory), a merge commit lies
\* on the first-parent line from the tip to the root
\* (UnsupportedMergeCommit), or the stash pop failed (StashRestoreConflict).
C10_RootTarget ==
  (pc = "done" /\ RootTargeted) =>
    /\ store = pre.store
    /\ branches = pre.branches
    /\ op.result =
         IF WasDirty /\ ~op.auto_stash THEN "DirtyWorkingDirectory"
         ELSE IF op.pop = "failed" THEN "StashRestoreConflict"
         ELSE IF \E c \in Range(FirstParentPath(branches[current])) : IsMerge(c)
         THEN "UnsupportedMergeCommit"
         ELSE "InitialCommitUnmodifiable"

C10_Witness ==
  /\ pc = "done" /\ RootTargeted
  /\ op.result = "InitialCommitUnmodifiable"
  /\ op.kind = "squash"
  /\ Cardinality(op.targets) = 2
  /\ Len(FirstParentPath(branches[current])) = 3

(* --------------------------------- C11 --------------------------------- *)

\* a squash of fewer than two targets has returned
FewTargets ==
  pc = "done" /\ op.kind = "squash" /\ Cardinality(op.targets) < 2

\* every squash_commits the page has invoked carries two or more hashes
SquashInvokesCarryTwo ==
  \A i \in 1..Len(invokes) :
    invokes[i].cmd = "squash_commits" => Len(invokes[i].commitHashes) >= 2

\* a step that opens the squash dialog is taken with two or more commits
\* selected
OpensWithTwo ==
  (squashModal'.isOpen /\ ~squashModal.isOpen) => Len(selectedCommits) >= 2

\* C11 as stated: a squash of no target or of one target returns
\* EmptySquashSet, with nothing written and the branch unmoved; the page
\* opens the squash dialog only with two or more commits selected and
\* passes two or more hashes to every squash_commits.
C11_Original ==
  /\ [](/\ FewTargets => (NothingDone /\ op.result = "EmptySquashSet")
        /\ SquashInvokesCarryTwo)
  /\ [][OpensWithTwo]_vars

\* C11 (amended): a squash of no target or of one target always fails with
\* nothing written and the branch unmoved; its error is EmptySquashSet
\* unless the guard refused the dirty tree (DirtyWorkingDirectory), the
\* linearizer refused a merge commit on its walk (UnsupportedMergeCommit) or
\* the root as target (InitialCommitUnmodifiable), or the stash pop failed
\* (StashRestoreConflict). The page opens the squash dialog only with two or
\* more commits selected and passes two or more hashes to every
\* squash_commits.
C11_NeverUnderTwo ==
  /\ [](/\ FewTargets =>
             (NothingDone /\ op.result = ResultOr("EmptySquashSet"))
        /\ SquashInvokesCarryTwo)
  /\ [][OpensWithTwo]_vars

C11_Witness ==
  /\ FewTargets
  /\ Cardinality(op.targets) = 1
  /\ op.result = "EmptySquashSet"
  /\ op.chain # <<>>

(* --------------------------------- C12 --------------------------------- *)

\* a commit with several parents lies on the first-parent line between the
\* tip and a target
MergeAboveTarget ==
  LET path == FirstParentPath(pre.branches[current])
  IN \E i \in 1..Len(path) :
       /\ path[i] \in op.targets
       /\ \E j \in 1..i : IsMerge(path[j])

\* C12 as stated: with a merge commit on the first-parent line from the tip
\* down to the oldest target the operation returns UnsupportedMergeCommit
\* and the branch is not moved; an operation that succeeds has rewritten
\* single-parent commits only.
C12_Original ==
  /\ (pc = "done" /\ MergeAboveTarget) =>
       (op.result = "UnsupportedMergeCommit" /\ branches = pre.branches)
  /\ Succeeded => \A c \in Range(op.chain) : ~IsMerge(c)

\* C12 (amended): such an operation always fails with nothing written and
\* the branch unmoved; its error is UnsupportedMergeCommit unless the guard
\* refused the dirty tree (DirtyWorkingDirectory) or the stash pop failed
\* (StashRestoreConflict). An operation that succeeds has rewritten
\* single-parent commits only.
C12_MergeOnPath ==
  /\ (pc = "done" /\ MergeAboveTarget) =>
       /\ NothingDone
       /\ branches = pre.branches
       /\ op.result =
            IF WasDirty /\ ~op.auto_stash THEN "DirtyWorkingDirectory"
            ELSE IF op.pop = "failed" THEN "StashRestoreConflict"
            ELSE "UnsupportedMergeCommit"
  /\ Succeeded => \A c \in Range(op.chain) : ~IsMerge(c)

C12_Witness ==
  /\ pc = "done" /\ MergeAboveTarget
  /\ op.result = "UnsupportedMergeCommit"
  /\ op.kind = "squash"
  /\ ~IsMerge(pre.branches[current])
  /\ \A t \in op.targets : ~IsMerge(t)

(* --------------------------------- C13 --------------------------------- *)

\* a squash of two or more commits, one of them not on the first-parent
\* line of the branch
StrayTarget ==
  /\ op.kind = "squash"
  /\ Cardinality(op.targets) >= 2
  /\ ~(op.targets \subseteq Range(FirstParentPath(pre.branches[current])))

\* a step in which the page invokes squash_commits passes the selection, in
\* the order the commits were selected
PassesSelection ==
  (/\ Len(invokes') = Len(invokes) + 1
   /\ invokes'[Len(invokes')].cmd = "squash_commits") =>
     invokes'[Len(invokes')].commitHashes = selectedCommits

\* C13 as stated: the page passes every selected hash in selection order,
\* and a squash of such hashes with one that is not in the chain of the
\* current branch returns TargetNotInChain, the branch unmoved.
C13_Original ==
  /\ []((pc = "done" /\ StrayTarget) =>
          (NothingDone /\ op.result = "TargetNotInChain"))
  /\ [][PassesSelection]_vars

\* C13 (amended): the page passes every selected hash in selection order;
\* such a squash always fails with nothing written and the branch unmoved;
\* its error is TargetNotInChain unless the guard refused the dirty tree
\* (DirtyWorkingDirectory), the walk to the root met a merge commit
\* (UnsupportedMergeCommit), the root is among the targets
\* (InitialCommitUnmodifiable), or the stash pop failed
\* (StashRestoreConflict).
C13_StrayTargetFails ==
  /\ []((pc = "done" /\ StrayTarget) =>
          (NothingDone /\ op.result = ResultOr("TargetNotInChain")))
  /\ [][PassesSelection]_vars

C13_Witness ==
  /\ pc = "done" /\ StrayTarget
  /\ op.result = "TargetNotInChain"
  /\ op.chain # <<>>

(* --------------------------------- C14 --------------------------------- *)

\* a write of the commit recreator has failed
WriteFailed == op.rewrite = "ObjectWriteFailure"

\* C14 as stated: after a failed write the operation returns
\* ObjectWriteFailure, no later step is executed, the branch is at the tip
\* it had before the operation, and the commits written before the failure
\* are in the store, reachable from no branch.
C14_Original ==
  WriteFailed =>
    /\ pc \in {"pop", "done"}
    /\ Len(op.written) < Len(op.steps)
    /\ store = pre.store \cup Range(op.written)
    /\ branches = pre.branches
    /\ \A c \in Range(op.written) : \A b \in DOMAIN branches :
         c \notin Reachable(branches[b])
    /\ pc = "done" => op.result = "ObjectWriteFailure"

\* C14 (amended): after a failed write no later step is executed and the
\* operation does not move the branch; the commits written before the
\* failure stay in the store, and those the store did not hold before are
\* reachable from no branch. The operation returns ObjectWriteFailure unless
\* the stash pop failed (StashRestoreConflict).
C14_WriteFailureAborts ==
  WriteFailed =>
    /\ pc \in {"pop", "done"}
    /\ Len(op.written) < Len(op.steps)
    /\ store = pre.store \cup Range(op.written)
    /\ ~MovedByOther => branches = pre.branches
    /\ branches[current] \in pre.store
    /\ \A c \in Range(op.written) \ pre.store : \A b \in DOMAIN branches :
         c \notin Reachable(branches[b])
    /\ pc = "done" =>
         op.result = IF op.pop = "failed" THEN "StashRestoreConflict"
                     ELSE "ObjectWriteFailure"

C14_Witness ==
  /\ pc = "done" /\ WriteFailed
  /\ Len(op.written) = 2
  /\ Len(op.steps) = 3
  /\ \A c \in Range(op.written) : c \notin pre.store

(* --------------------------------- C15 --------------------------------- *)

\* the reference updater has run
AdvanceDone ==
  pc \in {"pop", "done"} /\ op.rewrite \in {"ok", "RefUpdateFailure"}

C17_Original ==
  /\ pre.store \subseteq store
  /\ Succeeded =>
       \A c \in Range(op.chain) : \A b \in DOMAIN branches :
         c \notin Reachable(branches[b])

\* C17 (amended): every commit the store held before the operation is still
\* in it, with the same fields. After a successful rewrite that changed a
\* commit, no commit of the original line above the lower bound is reachable
\* from the current branch; a rewrite that wrote every commit with the
\* fields it had leaves the branch on the original line; another branch
\* reaches the commits it reached before.
C17_NothingDeleted ==
  /\ pre.store \subseteq store
  /\ Succeeded =>
       /\ IF op.written = op.chain
          THEN branches[current] = op.start_tip
          ELSE \A c \in Range(op.chain) :
                 c \notin Reachable(branches[current])
       /\ \A b \in DOMAIN branches \ {current} :
            Reachable(branches[b]) = Reachable(pre.branches[b])

C17_Witness ==
  /\ Succeeded
  /\ Len(op.chain) = 3
  /\ op.written # op.chain
  /\ branches["dev"] = op.start_tip
  /\ \A c \in Range(op.chain) : c \in store

(* --------------------------------- C18 --------------------------------- *)

\* C18: from its start to its return, on success and on failure, an
\* operation leaves the set of branch names as it is and moves no branch
\* other than the current one.
C18_OnlyCurrentBranch ==
  (pc \notin {"idle", "guard"}) =>
    /\ DOMAIN branches = DOMAIN pre.branches
    /\ \A b \in DOMAIN branches \ {current} : branches[b] = pre.branches[b]

C18_Witness ==
  /\ Succeeded
  /\ branches[current] # op.start_tip
  /\ branches["dev"] = op.start_tip

(* --------------------------------- C19 --------------------------------- *)

\* C19: with a clean tree, for either value of autoStash, the guard saves no
\* stash entry and runs the operation; no pop is attempted, the stash is the
\* one found by the guard, and the result is the one of the rewrite.
C19_CleanTreeRunsDirectly ==
  (pc \notin {"idle", "guard"} /\ ~WasDirty) =>
    /\ ~op.did_stash
    /\ op.pop = "none"
    /\ stash = pre.stash
    /\ pc = "done" => (op.start_tip # NoCommit /\ op.result = op.rewrite)

C19_Witness ==
  /\ Succeeded /\ ~WasDirty /\ op.auto_stash
  /\ branches[current] # op.start_tip

(* --------------------------------- C16 --------------------------------- *)

\* the invocations of edit_commit_message, squash_commits and switch_branch
\* that have not returned
OperationsInFlight == {i \in 1..Len(invokes) : invokes[i].cmd \in Operations}

\* C16 as stated: at most one of edit_commit_message, squash_commits and
\* switch_branch is in flight at any time.
C16_Original == Cardinality(OperationsInFlight) <= 1

(* --------------------------------- C20 --------------------------------- *)

\* the step in which an invoke is rejected: error takes a failure text,
\* loading is false, both dialogs stay as they are, and nothing is invoked
\* again: the rejected invocation is gone and no other is added
FailureShown ==
  InvokeRejected =>
    /\ error' \in Failures
    /\ loading' = FALSE
    /\ editModal' = editModal
    /\ squashModal' = squashModal
    /\ Len(invokes') = Len(invokes) - 1

\* C20: a rejected invoke of the page sets error to the failure text, leaves
\* the open dialog open and resets loading, without invoking again; a
\* rewrite that failed inside the guard returns its own error unless the
\* stash pop failed, and never returns success.
C20_FailureReachesCaller ==
  /\ []((pc = "done" /\ op.rewrite # "ok") =>
          /\ op.result # "ok"
          /\ op.result = IF op.pop = "failed" THEN "StashRestoreConflict"
                         ELSE op.rewrite)
  /\ [][FailureShown]_vars

C20_Witness ==
  /\ error \in Failures
  /\ ~loading
  /\ editModal.isOpen
  /\ invokes = <<>>
(* --------------------------------- C21 --------------------------------- *)

\* the commits written so far are those of the first steps of the plan, in
\* the order of the plan, each on top of the one written before it, the
\* first on top of the lower bound
WrittenInOrder ==
  /\ Len(op.written) <= Len(op.steps)
  /\ \A i \in 1..Len(op.written) :
       /\ op.written[i].tree = op.steps[i].tree
       /\ op.written[i].message = op.steps[i].message
       /\ op.written[i].date = op.steps[i].orig.date
       /\ op.written[i].parent_ids =
            << IF i = 1 THEN op.lower_bound ELSE op.written[i - 1] >>
  /\ \A i \in 1..Len(op.steps) - 1 :
       IndexOf(op.chain, op.steps[i].orig) <
         IndexOf(op.chain, op.steps[i + 1].orig)

\* C21 as stated: the commits are written oldest first, each with one
\* parent, the lower bound for the first and the commit written before it
\* for the others; no commit written has a commit of the original chain as
\* its parent; the new tip is the commit written last.
C21_Original ==
  /\ WrittenInOrder
  /\ \A i \in 1..Len(op.written) :
       op.written[i].parent_ids[1] \notin Range(op.chain)
  /\ Succeeded =>
       /\ op.written # <<>>
       /\ branches[current] = op.written[Len(op.written)]

\* C21 (amended): the same, except that the parent of a written commit is
\* a commit of the original chain when the commit written before it has the
\* fields of its original, which makes it that original.
C21_SequentialParents ==
  /\ WrittenInOrder
  /\ \A i \in 1..Len(op.written) :
       op.written[i].parent_ids[1] \in Range(op.chain) =>
         /\ i > 1
         /\ op.written[i - 1] = op.steps[i - 1].orig
  /\ Succeeded =>
       /\ op.written # <<>>
       /\ branches[current] = op.written[Len(op.written)]

C21_Witness ==
  /\ Succeeded
  /\ Len(op.written) = 3
  /\ op.written[1].parent_ids = <<op.lower_bound>>
  /\ op.written[3].parent_ids = <<op.written[2]>>
  /\ \A i \in 1..3 : op.written[i] \notin Range(op.chain)

(* --------------------------------- C22 --------------------------------- *)

\* the phases in the order an operation goes through them
PhaseOrder ==
  {<<"idle", "guard">>, <<"guard", "linearize">>, <<"guard", "done">>,
   <<"linearize", "plan">>, <<"linearize", "pop">>,
   <<"plan", "write">>, <<"plan", "pop">>,
   <<"write", "advance">>, <<"write", "pop">>,
   <<"advance", "pop">>, <<"pop", "done">>, <<"done", "idle">>}

\* a step of the operation, as opposed to one of another actor
OwnStep == extLeft' = extLeft

\* every step changes phase along the order; a commit is written only in
\* the write phase, the branch moved only in the reference update, the
\* stash changed only by the guard on entry and by the pop
StepsInOrder ==
  /\ pc' # pc => <<pc, pc'>> \in PhaseOrder
  /\ store' # store => pc = "write"
  /\ (OwnStep /\ branches' # branches) => pc = "advance"
  /\ stash' # stash => pc \in {"guard", "pop"}

\* C22: the phases follow one another in the order guard, linearizer,
\* planner, writes, reference update, pop; commits are written only with a
\* chain and a plan, the branch is moved only with every step written, and
\* the pop comes after the reference update or the failure of the rewrite.
C22_PhaseOrder ==
  /\ [](/\ op.written # <<>> => (op.chain # <<>> /\ op.steps # <<>>)
        /\ pc \in {"idle", "guard", "linearize", "plan"} => op.written = <<>>
        /\ pc \in {"linearize", "plan"} => store = pre.store
        /\ op.rewrite = "ok" =>
             (op.steps # <<>> /\ Len(op.written) = Len(op.steps))
        /\ op.pop # "none" =>
             (pc = "done" /\ op.rewrite # "pending" /\ op.did_stash))
  /\ [][StepsInOrder]_vars

C22_Witness ==
  /\ pc = "done"
  /\ op.pop = "ok"
  /\ op.rewrite = "ok"
  /\ Len(op.written) = 3
  /\ branches[current] = op.written[3]

(* --------------------------------- C23 --------------------------------- *)

\* the commits of the chain a squash keeps: the newest target and every
\* commit that is no target
KeptBySquash ==
  SelectSeq(op.chain,
            LAMBDA c : c \notin op.targets
                         \/ c = NewestTarget(op.chain, op.targets))

\* a squash has been planned
SquashPlanned == op.kind = "squash" /\ op.steps # <<>>

SingleUpdate ==
  (OwnStep /\ branches' # branches) =>
    /\ pc = "advance" /\ pc' = "pop"
    /\ branches[current] = op.start_tip
    /\ op.written # <<>>
    /\ branches' = [branches EXCEPT ![current] = op.written[Len(op.written)]]

LayoutEnded == graphPos = Len(graphCommits) \/ optimized.threw

\* C26 as stated: for every list of commits the optimized function returns
\* what the original returns: for every commit the same rail, colorIndex,
\* connections and passThroughRails, and the same maxRails.
C26_Original ==
  LayoutEnded =>
    /\ ~optimized.threw
    /\ optimized.nodes = original.nodes
    /\ optimized.maxRails = original.maxRails

(* --------------------------------- C27 --------------------------------- *)

\* the rails of the optimized function that expect a commit
ExpectingRails ==
  {r \in 0..(Len(optimized.activeRails) - 1) :
     RailAt(optimized.activeRails, r) # NullRail}

\* C27 as stated: after each commit, every rail in emptyRails is null in
\* activeRails and is in emptyRails once; activeRailCount is the number of
\* rails that expect a commit; the rail allocateRail would return expects
\* none; a rail is in the array of hashToRails of the hash it expects, once,
\* and in no other.
C27_Original ==
  ~optimized.threw =>
    /\ \A k \in 1..Len(optimized.emptyRails) :
         /\ optimized.emptyRails[k] \notin ExpectingRails
         /\ \A j \in 1..Len(optimized.emptyRails) :
              optimized.emptyRails[j] = optimized.emptyRails[k] => j = k
    /\ optimized.activeRailCount = Cardinality(ExpectingRails)
    /\ allocateRail(optimized).rail \notin ExpectingRails
    /\ \A h \in GraphHashes :
         LET rails == optimized.hashToRails[h]
         IN /\ Range(rails) =
                 {r \in ExpectingRails :
                    RailAt(optimized.activeRails, r)[1] = h}
            /\ Cardinality(Range(rails)) = Len(rails)

(* --------------------------------- C28 --------------------------------- *)

\* a step in which CommitList invokes get_commits or search_commits: loading
\* was false and is true; a fetch that is no reset is started with hasMore,
\* at the offset of the length of the list; a reset at offset 0
FetchStarts ==
  Len(fetches') > Len(fetches) =>
    LET f == fetches'[Len(fetches')]
    IN /\ ~listLoading /\ listLoading'
       /\ Len(fetches') = Len(fetches) + 1
       /\ f.repoPath = currentRepoPath'
       /\ f.cmd = IF f.query = "" THEN "get_commits" ELSE "search_commits"
       /\ IF f.reset THEN f.offset = 0
          ELSE hasMore /\ f.offset = Len(commits) /\ commits' = commits

\* a step in which a fetch ends: loading is false after it; a page returned
\* replaces the list after a reset and is appended to it otherwise
FetchEnds ==
  Len(fetches') < Len(fetches) =>
    /\ listLoading /\ ~listLoading'
    /\ listError' = NoError =>
         LET f == fetches[1]
             page == CommitPage(f.repoPath, f.query, f.offset).commits
         IN commits' = IF f.reset THEN page ELSE commits \o page
    /\ listError' # NoError => commits' = commits

\* C28: one get_commits / search_commits in flight at most, loading being
\* true exactly while it is; loadCommits starts a fetch only with loading
\* false, and without reset only with hasMore; a reset fetch replaces the
\* list with its page, another appends the page at the offset of the length
\* of the list.
C28_OneFetch ==
  /\ [](Len(fetches) <= 1 /\ (listLoading <=> fetches # <<>>))
  /\ [][FetchStarts /\ FetchEnds]_vars

C28_Witness ==
  /\ listLoading
  /\ Len(fetches) = 1
  /\ ~fetches[1].reset
  /\ fetches[1].offset = PageSize
  /\ due

(* --------------------------------- C29 --------------------------------- *)

\* nothing is under way in CommitList, no fetch and no timer: the list
\* stays as it is until the next event of the user
Settled == fetches = <<>> /\ searchTimeout = NoTimeout

\* the list holds commits of the repository open and of the query in the
\* search box only
ShowsCurrent ==
  \A k \in 1..Len(commits) :
    /\ commits[k].repoPath = currentRepoPath
    /\ commits[k].query = Trim(searchQuery)

\* C29 as stated: once every fetch has returned and the timer has fired,
\* every reload asked for (refresh, a change of repoPath, a search input,
\* clearSearch) has been answered by a fetch at offset 0 started for it, and
\* the list shows commits of the repository open and of the query in the
\* search box only.
C29_Original == Settled => (~due /\ ShowsCurrent)

(* --------------------------------- C30 --------------------------------- *)

\* C30 as stated: a closed diff dialog has no data and is not loading; an
\* open one that is not loading and has data shows the diff of the commit
\* last passed to openDiffModal.
C30_Original ==
  /\ ~diffModal.isOpen =>
       (diffModal.data = NoDiff /\ ~diffModal.loading)
  /\ (diffModal.isOpen /\ ~diffModal.loading /\ diffModal.data # NoDiff) =>
       diffModal.data = CommitDiff(lastViewed)
====
